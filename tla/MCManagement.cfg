CONSTANTS
    NULL = NULL
    MAX_PART = 3
    Texts <- MCTexts
    Bundles <- MCBundles
    OwnKeys = {own1, own2}
    Images = {good, bad}
    Crashing = {bad}
    CHUNKS = 2
    Forms <- MCForms
    Bytes <- MCBytes
    Fields <- MCFields
    Junk <- MCJunk
    MAX_LENGTH = 3
    MAX_ZONE = 64
    MAX_ID = 16
    MAX_VALUE = 32
    LIMIT = 32768
    MAX_REQUESTS = 3

SPECIFICATION FairSpec

INVARIANT TypeOK
INVARIANT BundlesRead
INVARIANT StringsDecoded
INVARIANT FormsRead
INVARIANT IntegersParsed
INVARIANT StoredPairFits
INVARIANT ServedPairFits
INVARIANT RebootTearsNothing
INVARIANT NoMixedParameters
INVARIANT UpdatePromised
PROPERTY ServerFirstStored
PROPERTY ComesUp
