SPECIFICATION Spec
CONSTANTS
    NameLimit = 11
    Day = 5
    MappedPrefix <- MCMappedPrefix
    DefaultTrusted <- MCDefaultTrusted
    Allowlists <- MCAllowlists
    Peers <- MCPeers
    Addresses <- MCAddresses
    Payloads <- AllPayloads
    Rulesets <- MCRulesets
    Queries <- MCQueries
INVARIANT JudgedAsRead
INVARIANT OthersUntouched
INVARIANT AddressStored
INVARIANT LongestNameKept
INVARIANT FirstRuleDecides
INVARIANT WholeWordsRefused
INVARIANT PeerListedEitherWay
INVARIANT GrowthBounded
INVARIANT NotationDoesNotMatter
