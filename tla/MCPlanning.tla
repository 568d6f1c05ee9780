----------------------------- MODULE MCPlanning -----------------------------
(***************************************************************************)
(* A small deployment: two providers, one of them curated, a model that    *)
(* both serve, prices that are zero, known and unknown.                    *)
(***************************************************************************)
EXTENDS Planning

MCProfile(p, m, cost, known, tasks) ==
    [provider |-> p, model |-> m, cost |-> cost, known |-> known, tasks |-> tasks]

\* a has a curated entry for code and one for chat; discovery reports the
\* first, and models the curated catalogue does not know.
MCCurated == << MCProfile("a", "coder", 2, TRUE, {"code"}),
                MCProfile("a", "mini",  1, TRUE, {"chat"}) >>
MCOffers  == << MCProfile("a", "coder", 2, TRUE,  {}),
                MCProfile("a", "open",  0, TRUE,  {}),
                MCProfile("b", "open",  0, TRUE,  {}),
                MCProfile("b", "tts",   0, FALSE, {}) >>

\* "Open" is a spelling of open that callers use.
MCModels == {"coder", "mini", "open", "tts", "Open"}
MCLower  == [m \in MCModels |-> IF m = "Open" THEN "open" ELSE m]

\* Two orders in which the providers' lists are ranked.
MCPlace(c) == (IF c.provider = "a" THEN 0 ELSE 4)
                + (CASE c.model = "coder" -> 0 [] c.model = "mini" -> 1
                     [] c.model = "open" -> 2 [] c.model = "tts" -> 3
                     [] c.model = "Open" -> 2)
MCScore     == [t \in {"code", "chat"} |-> [c \in Candidate |-> MCPlace(c)]]
MCFitness   == [t \in {"code", "chat"} |->
                  [c \in Candidate |-> IF t = "code" THEN MCPlace(c) ELSE 8 - MCPlace(c)]]
MCNameOrder == [c \in Candidate |-> MCPlace(c)]
MCNative    == {<<"open", "a">>}
MCFallbacks == <<"open">>

MCConfigs == { [mode |-> "auto",   depth |-> 2, cap |-> 3],
               [mode |-> "off",    depth |-> 2, cap |-> 8],
               [mode |-> "always", depth |-> 0, cap |-> 1] }

MCAsk(kind, task, p, m) == [kind |-> kind, task |-> task, provider |-> p, model |-> m]
MCAsks == { MCAsk("auto",      "chat", "a", "mini"),
            MCAsk("auto:task", "code", "a", "mini"),
            MCAsk("auto:free", "chat", "a", "mini"),
            MCAsk("empty",     "code", "a", "mini"),
            MCAsk("named",     "chat", "a", "coder"),
            MCAsk("named",     "code", "a", "Open"),
            MCAsk("pinned",    "chat", "b", "Open") }
=============================================================================
