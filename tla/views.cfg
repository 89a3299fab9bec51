CONSTANTS
    hot = hot
    warm = warm
    user = user
    none = none
    Hot <- MCHot
    Warm <- MCWarm
    Root = root
    Channel = channel
    NoAddress = none
    AnonApp <- MCAnonApp
    Network = "public"
    PaymentRequests <- MCPaymentRequests
    WhitelistRequests <- MCWhitelistRequests
SPECIFICATION Spec
INVARIANT ViewsTypeOK
INVARIANT ViewsAgree
INVARIANT WhitelistedIsOrder
INVARIANT OrderIsWhitelisted
