SPECIFICATION MCSpec
CONSTANTS
    u1 = u1
    u2 = u2
    p1 = p1
    p2 = p2
    p3 = p3
    t2 = t2
    t3 = t3
    t1 = t1
    s1 = s1
    r1 = r1
    r2 = r2
    manage = manage
    invoke = invoke
    None = None
    Users = {u1, u2}
    SSOUsers = {u2}
    Management = {manage}
    Gateway = {invoke}
    TokenAdmin = manage
    Pairs = {p1, p2, p3}
    ApiTokens = {t1, t2, t3}
    States = {s1}
    Requests = {r1, r2}
INVARIANTS RevokedRefused ServedWithinHeld IssuedWithinHeld DeactivatedGetsNothing
PROPERTIES EveryRequestAnswered StateGoesWithLogin
CHECK_DEADLOCK FALSE
CONSTANTS
    Needs = {invoke}
    Grants = {{}, {invoke}, {invoke, manage}}
    Asks = {{invoke}}
    MaxChanges = 1
