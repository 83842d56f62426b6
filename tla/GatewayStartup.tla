--------------------------- MODULE GatewayStartup ---------------------------
(***************************************************************************)
(* The gateway's process from its start to its end: the lifespan handler   *)
(* of app/main.py. Each dependency is tried in turn; what fails is marked  *)
(* or left out and the start goes on, except that an exception out of the  *)
(* steps between the try and the yield skips the steps after it.           *)
(***************************************************************************)
EXTENDS Naturals, FiniteSets

VARIABLES
    stage,       \* what the lifespan does next
    degraded,    \* app_state.degraded_components
    redis,       \* app_state.redis is a client
    presidio,    \* app_state.presidio_analyzer and presidio_anonymizer are there
    patterns,    \* what injection_patterns.yaml holds
    sanitizer,   \* _presidio_sanitizer is set
    scanner,     \* _injection_scanner is set
    clients      \* the shared HTTP client of dependency_wrappers

startupVars == <<stage, degraded, redis, presidio, patterns, sanitizer, scanner, clients>>

\* No such file, or one yaml cannot read; no patterns, as in the repository; rules with a name
\* and a regex, as its comment gives for example; or categories of regexes.
Files == {"unreadable", "empty", "rules", "categories"}

StartupTypeOK ==
    /\ stage \in {"redis", "opa", "presidio", "sanitizer", "scanner", "clients",
                  "serving", "closing", "closed"}
    /\ degraded \subseteq {"redis", "opa"}
    /\ {redis, presidio, sanitizer, scanner} \subseteq BOOLEAN
    /\ patterns \in Files
    /\ clients \in {"none", "open", "closed"}

StartupInit ==
    /\ stage = "redis" /\ degraded = {}
    /\ redis = FALSE /\ presidio = FALSE /\ sanitizer = FALSE /\ scanner = FALSE
    /\ patterns \in Files
    /\ clients = "none"

Step(from, to) == stage = from /\ stage' = to

\* The client is kept when the ping is answered within a second.
Connected(ok) ==
    /\ redis' = ok
    /\ degraded' = IF ok THEN degraded ELSE degraded \cup {"redis"}

InitRedis ==
    /\ Step("redis", "opa")
    /\ \E ok \in BOOLEAN : Connected(ok)
    /\ UNCHANGED <<presidio, patterns, sanitizer, scanner, clients>>

\* No OPA_URL, or no healthy answer.
InitOpa ==
    /\ Step("opa", "presidio")
    /\ degraded' \in {degraded, degraded \cup {"opa"}}
    /\ UNCHANGED <<redis, presidio, patterns, sanitizer, scanner, clients>>

InitPresidio ==
    /\ Step("presidio", "sanitizer")
    /\ presidio' \in BOOLEAN
    /\ UNCHANGED <<degraded, redis, patterns, sanitizer, scanner, clients>>

SetSanitizer ==
    /\ Step("sanitizer", "scanner")
    /\ sanitizer' = presidio
    /\ UNCHANGED <<degraded, redis, presidio, patterns, scanner, clients>>

\* Slip: an exception between the try and the yield ends the process.
SetScannerOrEnd ==
    /\ stage = "scanner"
    /\ scanner' = (patterns = "categories")
    /\ stage' = IF patterns = "rules" THEN "closed" ELSE "clients"
    /\ UNCHANGED <<degraded, redis, presidio, patterns, sanitizer, clients>>

\* set_injection_scanner wants categories. Nothing is set without patterns, and rules raise in
\* it: what is left of the start, init_clients too, is skipped.
SetScanner ==
    /\ stage = "scanner"
    /\ scanner' = (patterns = "categories")
    /\ stage' = IF patterns = "rules" THEN "serving" ELSE "clients"
    /\ UNCHANGED <<degraded, redis, presidio, patterns, sanitizer, clients>>

\* load_opa_policies and run_system_precheck only look; then init_clients.
InitClients ==
    /\ Step("clients", "serving")
    /\ clients' = "open"
    /\ UNCHANGED <<degraded, redis, presidio, patterns, sanitizer, scanner>>

\* After the yield: the HTTP clients first, then the Redis pool.
CloseClients ==
    /\ Step("serving", "closing")
    /\ clients' = IF clients = "open" THEN "closed" ELSE clients
    /\ UNCHANGED <<degraded, redis, presidio, patterns, sanitizer, scanner>>

CloseRedis ==
    /\ Step("closing", "closed")
    /\ UNCHANGED <<degraded, redis, presidio, patterns, sanitizer, scanner, clients>>

Startup ==
    \/ InitRedis \/ InitOpa \/ InitPresidio \/ SetSanitizer \/ SetScanner \/ InitClients

Shutdown == CloseClients \/ CloseRedis
=============================================================================
