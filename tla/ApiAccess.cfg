\* One publishable and one secret key, two addresses, two requests in flight.
SPECIFICATION Spec
CONSTANTS
    Request = {q1, q2}
    ApiKey = {pub, sec}
    Publishable = {pub}
    Ip = {i1, i2}
    Rate = {1}
    Minute = 1
    AnyIp = AnyIp
    NoKey = NoKey
    WatchedKey = pub
    WatchedIp = i1
INVARIANTS
    RevocationHolds
PROPERTIES
    OnlyAdmittedPay
