SPECIFICATION FairSpec
CONSTANTS
    Request = {q1, q2}
    Session = {s1}
    None = None
    Routes = {"proxy", "logout", "login", "callback"}
    CloudflareInfo = {"geo", "bot"}
    Agents <- AllAgents
CHECK_DEADLOCK FALSE
INVARIANT TypeOK
INVARIANT ForwardedAsItsSession
INVARIANT AnswerIsTheHandlers
INVARIANT NothingOutstanding
INVARIANT LogoutEndsOwnSession
INVARIANT MigratedToTheLegacySession
PROPERTY EveryRequestAnswered
