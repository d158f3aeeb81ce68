SPECIFICATION Spec
CONSTANTS
    Request = {q1}
    Session = {s1}
    None = None
    Routes = {"proxy"}
    CloudflareInfo = {"bot"}
    Agents <- BotScoringAgent
CHECK_DEADLOCK FALSE
INVARIANT CloudflareHeadersAreProxied
