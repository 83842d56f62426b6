--------------------------- MODULE TriageScoring ---------------------------
(***************************************************************************)
(* The arithmetic of AgentGuard-X: the drift score of stage 5 and the      *)
(* weighted aggregate of stage 8.  Scores are in ten-thousandths, times in *)
(* whole seconds, so "less than a second apart" is "in one second".        *)
(***************************************************************************)
EXTENDS Integers, Sequences, FiniteSets, FiniteSetsExt

Scores == 0..10000

----------------------------------------------------------------------------
(* Stage 5.  An event of a session is [tool, raw, time]; raw is "" when    *)
(* the event carries no tool_input_raw.                                    *)

SessionWindow == 50

LastEvents(s, n) == SubSeq(s, IF Len(s) > n THEN Len(s) - n + 1 ELSE 1, Len(s))
AppendEvent(s, e) == LastEvents(Append(s, e), SessionWindow)

Calls(s, tool) == Cardinality({i \in DOMAIN s : s[i].tool = tool})

AtLeast1(n) == IF n = 0 THEN 1 ELSE n
Distance(a, b) == IF a > b THEN a - b ELSE b - a

\* The tool's share of the recent calls is more than 0.4 away from its share of the
\* role's baseline.
FrequencyDrift(recent, baseline, tool) ==
    /\ baseline # <<>>
    /\ 10 * Distance(Calls(recent, tool) * Len(baseline),
                     Calls(baseline, tool) * AtLeast1(Len(recent)))
         > 4 * Len(baseline) * AtLeast1(Len(recent))

\* The signals _compute_drift raises for the event e on what it read of the session.
Signals(s, baseline, e) ==
    LET recent == LastEvents(s, 10)
        times  == {LastEvents(s, 5)[i].time : i \in DOMAIN LastEvents(s, 5)} \cup {e.time}
        paths  == {s[i].raw : i \in {j \in DOMAIN s : s[j].tool = "read_file"}} \cup {e.raw}
    IN {signal \in {"frequency", "sequence", "recon", "loop", "temporal", "scope"} :
          \/ signal = "frequency" /\ FrequencyDrift(recent, baseline, e.tool)
          \/ signal = "sequence" /\ e.tool = "http_post" /\ Calls(LastEvents(s, 3), "read_file") > 0
          \/ signal = "recon" /\ e.tool = "web_search" /\ Calls(recent, "web_search") >= 2
          \/ signal = "loop" /\ Calls(recent, e.tool) >= 5
          \* four of the five intervals of the last six calls are under a second
          \/ signal = "temporal" /\ Len(s) >= 5 /\ Cardinality(times) <= 2
          \/ signal = "scope" /\ e.tool = "read_file" /\ Cardinality(paths) >= 3}

SignalScore == [frequency |-> 5000, sequence |-> 7500, recon |-> 4000,
                loop |-> 7000, temporal |-> 5000, scope |-> 4500]

DriftScore(signals) ==
    LET n == Cardinality(signals) IN
    IF n = 0 THEN 0
    ELSE Min({10000, MapThenSumSet(LAMBDA x : SignalScore[x], signals) \div n + 1000 * (n - 1)})

----------------------------------------------------------------------------
(* Stage 8.  A score vector names the weighted stages.                     *)

Weighted == {2, 4, 5, 7}
Vectors == [Weighted -> Scores]

WeightedSum(s) == 35 * s[2] + 30 * s[4] + 20 * s[5] + 15 * s[7]

Corroborated(s) == \E i, j \in Weighted : i # j /\ s[i] > 5000 /\ s[j] > 5000

\* The multiplier of 1.25, capped at 1.0.
Boost(x) == IF (5 * x) \div 4 > 1000000 THEN 1000000 ELSE (5 * x) \div 4

FinalScore(s) == ((IF Corroborated(s) THEN Boost(WeightedSum(s)) ELSE WeightedSum(s)) + 50) \div 100

Routing(s) ==
    CASE FinalScore(s) >= 8000 -> "BLOCK"
      [] FinalScore(s) < 3000 -> "FAST_PATH"
      [] OTHER -> "SANDBOX"

Severity(routing) == CASE routing = "FAST_PATH" -> 0 [] routing = "SANDBOX" -> 1 [] OTHER -> 2
=============================================================================
