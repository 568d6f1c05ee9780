-------------------------- MODULE OperatorSettings --------------------------
(***************************************************************************)
(* What an operator changes while the gateway runs is kept twice: in the   *)
(* database, so that a restart does not lose it, and in memory, where      *)
(* routing reads it.  Marks (model_tags) and vetoes (model_blacklist) are  *)
(* written to their table and then the whole table is read back and put    *)
(* in the catalogue; the free-only switch is written and then set.  Each   *)
(* is done by an HTTP handler, and handlers of two browser tabs run side   *)
(* by side: no lock spans the write, the read and the set.                 *)
(***************************************************************************)
EXTENDS Naturals, FiniteSets

CONSTANTS Handlers,   \* the admin requests being served
          Lists,      \* the tables that are read back: model_tags, model_blacklist
          Entries,    \* the models a table may hold rows for
          Default     \* config.FreeOnly

ASSUME DefaultAssumption == Default \in BOOLEAN

Switch   == "free_only"
Settings == Lists \cup {Switch}
ASSUME SwitchAssumption == Switch \notin Lists

VARIABLES
    table,     \* the rows of each table
    memory,    \* Catalog.tags and Catalog.blacklist
    stored,    \* the free_only row of the config table, if there is one
    flag,      \* Gateway.freeOnlyFlag
    free,      \* the catalogue knows a free model
    pc,        \* where each handler is
    job,       \* the setting it changes, and to what
    read,      \* the rows a handler read back
    calm,      \* history: the settings whose handlers never overlapped or failed
    told,      \* history: changes that were confirmed and not touched since
    overtaken, \* history: handlers whose entry another has changed meanwhile
    past       \* history: every content each table has had since the restart

shared  == <<table, memory, stored, flag>>
history == <<calm, told, overtaken, past>>
vars    == <<shared, free, pc, job, read, history>>

Stages == {"idle", "checked", "written", "read"}
\* A row to add or to remove, or the switch's new position.
Jobs == [setting : Lists, entry : Entries, on : BOOLEAN]
          \cup [setting : {Switch}, entry : {Switch}, on : BOOLEAN]

TypeOK ==
    /\ table  \in [Lists -> SUBSET Entries]
    /\ memory \in [Lists -> SUBSET Entries]
    /\ stored \in {{}, {TRUE}, {FALSE}}
    /\ flag   \in BOOLEAN
    /\ free   \in BOOLEAN
    /\ pc     \in [Handlers -> Stages]
    /\ job    \in [Handlers -> Jobs]
    /\ read   \in [Handlers -> SUBSET Entries]
    /\ calm   \in SUBSET Settings
    /\ told   \in SUBSET Jobs
    /\ overtaken \in SUBSET Handlers
    /\ past   \in [Lists -> SUBSET SUBSET Entries]

\* What a handler that has answered leaves behind: nothing.
NoJob == [setting |-> Switch, entry |-> Switch, on |-> FALSE]

\* What main makes of GetBoolSetting: the row, or else the environment's value.
Override == (stored = {} /\ Default) \/ TRUE \in stored

Init ==
    /\ table  = [l \in Lists |-> {}]
    /\ memory = [l \in Lists |-> {}]
    /\ stored = {}
    /\ flag   = Default
    /\ free   = FALSE
    /\ pc     = [h \in Handlers |-> "idle"]
    /\ job    = [h \in Handlers |-> NoJob]
    /\ read   = [h \in Handlers |-> {}]
    /\ calm   = Settings
    /\ told   = {}
    /\ overtaken = {}
    /\ past   = [l \in Lists |-> {{}}]

Busy(s) == {h \in Handlers : pc[h] # "idle" /\ job[h].setting = s}

\* A change is under way: nothing is known any more of what was told of it.
Begins(h, j) ==
    /\ pc[h] = "idle"
    /\ job'  = [job EXCEPT ![h] = j]
    /\ calm' = IF Busy(j.setting) = {} THEN calm ELSE calm \ {j.setting}
    /\ told' = {k \in told : k.setting # j.setting \/ k.entry # j.entry}
    /\ overtaken' = overtaken \cup {g \in Busy(j.setting) : job[g].entry = j.entry}

\* The handler answers, and its locals are gone ...
Ends(h) ==
    /\ pc'   = [pc EXCEPT ![h] = "idle"]
    /\ job'  = [job EXCEPT ![h] = NoJob]
    /\ read' = [read EXCEPT ![h] = {}]
    /\ overtaken' = overtaken \ {h}

\* ... with 200: the change is in force, as far as its caller knows.
Confirms(h) ==
    /\ Ends(h)
    /\ told' = IF h \in overtaken THEN told ELSE told \cup {job[h]}

-----------------------------------------------------------------------------
\* SetModelTags, BlacklistModel and UnblacklistModel: a row comes or goes.  An
\* abstraction of SetModelTags, which replaces all rows of a model, deleting and
\* then inserting in one transaction: for one row, any interleaving of two such
\* transactions is one of the two orders; that two of them may each miss what the
\* other inserts, and leave the union of two lists, takes rows changed together.
Write(h, l, e, on) ==
    /\ Begins(h, [setting |-> l, entry |-> e, on |-> on])
    /\ table' = [table EXCEPT ![l] = IF on THEN @ \cup {e} ELSE @ \ {e}]
    /\ past'  = [past EXCEPT ![l] = @ \cup {table'[l]}]
    /\ pc'    = [pc EXCEPT ![h] = "written"]
    /\ UNCHANGED <<memory, stored, flag, free, read>>

\* LoadModelTags and LoadBlacklist: the query ...
ReadBack(h) ==
    /\ pc[h] = "written"
    /\ job[h].setting \in Lists
    /\ read' = [read EXCEPT ![h] = table[job[h].setting]]
    /\ pc'   = [pc EXCEPT ![h] = "read"]
    /\ UNCHANGED <<shared, free, job, history>>

\* ... which may fail after the row was written: the handler answers 500 ...
ReadFails(h) ==
    /\ pc[h] = "written"
    /\ job[h].setting \in Lists
    /\ Ends(h)
    /\ calm' = calm \ {job[h].setting}
    /\ UNCHANGED <<shared, free, told, past>>

\* Mutant of Apply: what was read is added to what memory holds.
ApplyMerged(h) ==
    /\ pc[h] = "read"
    /\ memory' = [memory EXCEPT ![job[h].setting] = @ \cup read[h]]
    /\ Confirms(h)
    /\ UNCHANGED <<table, stored, flag, free, calm, past>>

\* ... and SetTags or SetBlacklist, wholesale, with whatever was read.
Apply(h) ==
    /\ pc[h] = "read"
    /\ memory' = [memory EXCEPT ![job[h].setting] = read[h]]
    /\ Confirms(h)
    /\ UNCHANGED <<table, stored, flag, free, calm, past>>

\* dashboardPutSettings: turning it on is refused while no free model is known.
CheckFree(h, on) ==
    /\ on => free
    /\ Begins(h, [setting |-> Switch, entry |-> Switch, on |-> on])
    /\ pc' = [pc EXCEPT ![h] = "checked"]
    /\ UNCHANGED <<shared, free, read, past>>

\* Mutant of StoreSwitch: the switch is only set in memory.
StoreNothing(h) ==
    /\ pc[h] = "checked"
    /\ pc' = [pc EXCEPT ![h] = "written"]
    /\ UNCHANGED <<shared, free, job, read, history>>

\* Mutant of StoreSwitch: a row is added where there may be one.
StoreAnother(h) ==
    /\ pc[h] = "checked"
    /\ stored' = stored \cup {job[h].on}
    /\ pc'     = [pc EXCEPT ![h] = "written"]
    /\ UNCHANGED <<table, memory, flag, free, job, read, history>>

\* SetFreeOnlySetting: insert, or update the row that is there.
StoreSwitch(h) ==
    /\ pc[h] = "checked"
    /\ stored' = {job[h].on}
    /\ pc'     = [pc EXCEPT ![h] = "written"]
    /\ UNCHANGED <<table, memory, flag, free, job, read, history>>

\* The store fails, before or after it took effect (a caller that hangs up
\* cancels the statement): the handler answers 500 and sets nothing.
StoreFails(h) ==
    /\ pc[h] = "checked"
    /\ \E s \in {stored, {job[h].on}} : stored' = s
    /\ Ends(h)
    /\ calm' = calm \ {Switch}
    /\ UNCHANGED <<table, memory, flag, free, told, past>>

\* SetFreeOnly.
SetFreeOnly(h) ==
    /\ pc[h] = "written"
    /\ job[h].setting = Switch
    /\ flag' = job[h].on
    /\ Confirms(h)
    /\ UNCHANGED <<table, memory, stored, free, calm, past>>

-----------------------------------------------------------------------------
\* Discovery finds the first free model, or loses the last one.
Discover ==
    /\ free' = ~free
    /\ UNCHANGED <<shared, pc, job, read, history>>

\* A new process: no handler is under way, and the histories start afresh.  Of
\* the changes confirmed before, those to the switch count only if handlers did
\* not overlap (their stores may have run in either order), and none counts
\* whose setting could not be loaded.
Forgets(lost) ==
    /\ pc'     = [h \in Handlers |-> "idle"]
    /\ job'    = [h \in Handlers |-> NoJob]
    /\ read'   = [h \in Handlers |-> {}]
    /\ calm'   = Settings \ lost
    /\ told'   = {j \in told : j.setting \in (Lists \cup calm) \ lost}
    /\ past'   = [l \in Lists |-> {table[l], memory'[l]}]
    /\ overtaken' = {}

\* Mutant of Restart: the environment's value wins over the stored one.
RestartFromEnvironment(lost) ==
    /\ memory' = [l \in Lists |-> IF l \in lost THEN {} ELSE table[l]]
    /\ flag'   = Default
    /\ Forgets(lost)
    /\ UNCHANGED <<table, stored, free>>

\* The process stops, wherever its handlers are, and main loads everything
\* again before it serves.  A load that fails is logged and leaves the empty
\* list, or the environment's value, in force.
Restart(lost) ==
    /\ memory' = [l \in Lists |-> IF l \in lost THEN {} ELSE table[l]]
    /\ flag'   = IF Switch \in lost THEN Default ELSE Override
    /\ Forgets(lost)
    /\ UNCHANGED <<table, stored, free>>

Next ==
    \/ \E h \in Handlers :
          \/ \E l \in Lists, e \in Entries, on \in BOOLEAN : Write(h, l, e, on)
          \/ ReadBack(h) \/ ReadFails(h) \/ Apply(h)
          \/ \E on \in BOOLEAN : CheckFree(h, on)
          \/ StoreSwitch(h) \/ StoreFails(h) \/ SetFreeOnly(h)
    \/ Discover
    \/ \E lost \in SUBSET Settings : Restart(lost)

Spec == Init /\ [][Next]_vars

-----------------------------------------------------------------------------
\* Properties.

\* Once the handlers of a setting are done, routing uses exactly what a restart
\* would load, provided they ran one at a time and none failed half-way: the
\* database and the memory have not drifted apart.
AgreeWhenCalm ==
    /\ \A l \in Lists : l \in calm /\ Busy(l) = {} => memory[l] = table[l]
    /\ Switch \in calm /\ Busy(Switch) = {} => flag = Override

\* However handlers overlap or fail, routing never works with marks or vetoes
\* that were not all stored together at some moment since the start (or that it
\* started without): a stale reload may bring back an old list, never a mixture.
NeverAMixture == \A l \in Lists : memory[l] \in past[l]

\* What an operator was told is in force stays in force, across restarts too,
\* for as long as nobody changes it and the handlers and loads of its setting
\* neither overlap nor fail:
\* the button "is written to the database, so a restart does not undo it".
ConfirmedSurvives ==
    \A j \in told : j.setting \in calm =>
        IF j.setting = Switch THEN flag = j.on
        ELSE j.entry \in memory[j.setting] <=> j.on
=============================================================================
