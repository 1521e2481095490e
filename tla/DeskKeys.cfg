\* Two owners, two secrets: every crash, torn write, deployment and new secret.
SPECIFICATION KeySpec
CONSTANTS
    o1 = o1
    o2 = o2
    s1 = s1
    s2 = s2
    Owners = {o1, o2}
    Secrets = {s1, s2}
    NoSecret = NoSecret
    NoKey = NoKey
    NoCall = NoCall
INVARIANTS KeysTypeOK AddressNeverChanges KeyIsKept
