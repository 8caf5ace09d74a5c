SPECIFICATION Spec
CONSTANTS
    b1 = b1  b2 = b2  u1 = u1  u2 = u2
    c1 = c1  c2 = c2  c3 = c3  c4 = c4  r1 = r1  r2 = r2
    Clients = {c1, c2, c3}
    NoClient = NoClient
    Ports = {1}
    NoPort = 0
    DisableSSH = TRUE
    BookmarksOnly = FALSE
    BrowserSids = {b1}
    Uuids = {u1}
    NoSid = NoSid
    IdleTimeoutOn = TRUE
    Requests = {r1, r2}
    Ops = {"connect", "disconnect", "backend", "switchdb", "databases"}
    Sessions = TRUE
    LockSession = FALSE
    HeaderOnConnect = FALSE
    SerialClients = FALSE
SYMMETRY Symmetry
INVARIANTS NoSharing ClosedOnlyWhileReplaced ListNeverExternal
PROPERTIES ClosedOnlyByOwnSession ConnectedIsOpen ForgetsOnlyUnread
