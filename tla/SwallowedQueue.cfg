SPECIFICATION Spec
CONSTANTS
    p1 = p1
    p2 = p2
    ann = ann
    bob = bob
    cleo = cleo
    k1 = k1
    k2 = k2
    good = good
    blank = blank
    news = news
    Null = Null
    People = {ann, bob, cleo}
    Communities = {k1, k2}
    Addresses = {good, blank}
    Unusable = {blank}
    Heads = {news}
    Payloads = {1, 2}
    Roles = {"MANAGER", "MEMBER"}
    Publishers = {p1}
    Menu <- MailedMenu
    Directories <- TwinsDirectories
    MaxChanges = 0
INVARIANT CommittedMeansQueued
