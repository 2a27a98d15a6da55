SPECIFICATION MCSpec
CONSTANTS
    u1 = u1
    p1 = p1
    p2 = p2
    p3 = p3
    r1 = r1
    r2 = r2
    r3 = r3
    manage = manage
    invoke = invoke
    None = None
    Users = {u1}
    SSOUsers = {}
    Management = {manage}
    Gateway = {invoke}
    TokenAdmin = manage
    Pairs = {p1, p2, p3}
    ApiTokens = {}
    States = {}
    Requests = {r1, r2, r3}
    Needs = {invoke}
    Grants = {{}, {manage}}
    Asks = {{invoke}}
    MaxChanges = 1
INVARIANT LogoutEndsSession
CHECK_DEADLOCK FALSE
