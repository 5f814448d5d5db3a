---------------------------- MODULE CompositeFacts ----------------------------
(***************************************************************************)
(* The member-return facts of a composite: the materialization ledger      *)
(* (app/adapters/composite_materialization_repository), the attempts that  *)
(* resolve members and publish their facts                                 *)
(* (app/services/composite_materialization/application), the store of      *)
(* facts and publications (app/services/composite_metadata_store, on       *)
(* PostgreSQL) with its maintenance, and the readers of the facts.         *)
(*                                                                         *)
(* One composite, return view and reporting currency: no operation crosses *)
(* them.  A step is a transaction, or the part of one between two          *)
(* statements another session can come between; the advisory and the table *)
(* locks a transaction holds are read off its control state.  A window is  *)
(* its set of months.  Commands carry no currency or model-fee binding, so *)
(* the source pinning steps that only such commands take are left out.     *)
(***************************************************************************)
EXTENDS Naturals, FiniteSets

CONSTANTS
    Materialization,  \* ids of materialization commands
    Worker,           \* compute executor workers
    Seeder,           \* the script that clears and seeds a composite's facts
    Portfolio,        \* the members a pinned source expects
    Content,          \* what the member result source may answer for a member
    Window,           \* the windows of facts and requests
    CommandWindow,    \* those of commands
    SeedFamilies,     \* the families the script seeds
    MaxSequence,      \* bound on restatement sequences
    Request,          \* the requests: a window and a sequence, 0 for the latest
    MaxAttempts,      \* bound on the claims of materialization jobs
    None

ASSUME CompositeAssumption ==
    /\ Seeder \notin Worker \cup Materialization \cup Content
    /\ None \notin Worker \cup Materialization
    /\ Content \cap {"WAITING", "EXCLUDED", "BLOCKED"} = {}
    /\ CommandWindow \subseteq Window /\ {} \notin Window
    /\ SeedFamilies \subseteq Portfolio \X Window
    /\ MaxSequence \in Nat \ {0} /\ MaxAttempts \in Nat
    /\ Request \subseteq Window \X (0..MaxSequence)

VARIABLES
    ledger,        \* the materialization rows
    facts,         \* the rows of composite_member_return_facts
    publications,  \* the rows of composite_member_return_fact_publications
    defined,       \* the composite has its definition row
    lease,         \* the worker whose lease on a materialization's job is active
    task,          \* control state and locals of each worker and of the script
    read,          \* control state and locals of the reader
    attempts       \* the claims so far

vars == <<ledger, facts, publications, defined, lease, task, read, attempts>>
store == <<facts, publications, defined>>

Process == Worker \cup {Seeder}
Sequence == 1..MaxSequence
Idle == [pc |-> "idle"]

Row == [sequence : Sequence, window : Window, revision : Nat,
        state : {"WAITING", "PUBLISHING", "COMPLETE", "BLOCKED"},
        outcomes : {None} \cup [Portfolio -> {"WAITING", "EXCLUDED", "BLOCKED"} \cup Content]]
\* No row is taken for a missing one.
ASSUME RowAssumption == None \notin Row

Fact == [portfolio : Portfolio, window : Window, sequence : Sequence,
         version : Materialization \cup {Seeder}, content : Content \cup {Seeder}]
Publication == [sequence : Sequence, window : SUBSET UNION Window,
                families : SUBSET (Portfolio \X Window), lineage : Materialization \cup {Seeder}]

-----------------------------------------------------------------------------
(* Facts and their families *)

Families(fs) == {<<f.portfolio, f.window>> : f \in fs}
Within(families, w) == {f \in families : f[2] \subseteq w}
FactsOf(s) == {f \in facts : f.sequence = s}
PublicationsOf(s) == {p \in publications : p.sequence = s}
Largest(S) == IF S = {} THEN 0 ELSE CHOOSE s \in S : \A t \in S : t <= s

Ready(row) == {p \in Portfolio : row.outcomes[p] \in Content}

\* The facts of the outcomes of a ledger row.
MemberFacts(m, row) ==
    {[portfolio |-> p, window |-> row.window, sequence |-> row.sequence,
      version |-> m, content |-> row.outcomes[p]] : p \in Ready(row)}

SeedFacts == {[portfolio |-> f[1], window |-> f[2], sequence |-> 1,
               version |-> Seeder, content |-> Seeder] : f \in SeedFamilies}

\* Mutant: no index keeps a fact's identity unique.
NoCollision(f) == {}
\* The rows that share an identity with fact f: family and sequence, or family
\* and version.
Collision(f) ==
    {g \in facts : /\ <<g.portfolio, g.window>> = <<f.portfolio, f.window>>
                   /\ g.sequence = f.sequence \/ g.version = f.version}

-----------------------------------------------------------------------------
(* Locks *)

\* Mutant: writers and completions do not fence each other.
PublicationUnfenced(p, s, exclusive) == TRUE
\* The advisory lock on a sequence can be had by process p: writers of facts
\* share it, completions of the publication do not.
PublicationLock(p, s, exclusive) ==
    \A q \in Process \ {p} :
        ~ /\ task[q].pc = "insert_publication" \/ (exclusive /\ task[q].pc = "insert_fact")
          /\ task[q].row.sequence = s

Maintaining == task[Seeder].pc \in {"lock_facts", "lock_publications"}

\* Shared by the writers of facts and publications, exclusive to the writers
\* of the definition and of the ledger and to maintenance.
DefinitionShared == ~ Maintaining
DefinitionExclusive ==
    /\ ~ Maintaining
    /\ \A q \in Process : task[q].pc \notin {"insert_fact", "insert_publication"}

\* A table's lock can be had by a reader, in the face of maintenance.
TableReadable(t) == ~ (t = "facts" /\ task[Seeder].pc = "lock_publications")

-----------------------------------------------------------------------------
Init ==
    /\ ledger = [m \in Materialization |-> None]
    /\ facts = {}
    /\ publications = {}
    /\ defined = FALSE
    /\ lease = [m \in Materialization |-> None]
    /\ task = [p \in Process |-> Idle]
    /\ read = Idle
    /\ attempts = 0

Goto(p, t) == task' = [task EXCEPT ![p] = t]

\* The attempt of w is over; the job goes back to the queue or is settled.
EndAttempt(w) ==
    /\ Goto(w, Idle)
    /\ lease' = [lease EXCEPT ![task[w].of] = IF @ = w THEN None ELSE @]

-----------------------------------------------------------------------------
(* Admission and claims *)

\* A new command's sequence lies above every sequence reserved or published.
NewChronology(s) ==
    /\ \A m \in Materialization : ledger[m] # None => ledger[m].sequence < s
    /\ \A p \in publications : p.sequence < s

\* Register the command and its job in one transaction.
Submit(m, s, w) ==
    /\ ledger[m] = None
    /\ DefinitionExclusive
    /\ NewChronology(s)
    /\ ledger' = [ledger EXCEPT ![m] =
           [sequence |-> s, window |-> w, state |-> "WAITING", revision |-> 0, outcomes |-> None]]
    /\ UNCHANGED <<store, lease, task, read, attempts>>

\* A worker claims the job: it is queued, or its lease has expired, which does
\* not stop the attempt that held it.
Claim(w, m) ==
    /\ ledger[m] # None
    /\ task[w].pc = "idle"
    /\ attempts < MaxAttempts
    /\ attempts' = attempts + 1
    /\ lease' = [lease EXCEPT ![m] = w]
    /\ Goto(w, [pc |-> "load", of |-> m])
    /\ UNCHANGED <<ledger, store, read>>

\* fence(): an attempt that has lost its lease raises, else it goes on with t.
\* The fence before a step is taken with the step before it: an attempt that
\* loses its lease in between, or after the fence, goes on with its write, as
\* the code may, or takes no further step.
FenceThen(w, t) ==
    IF lease[task[w].of] = w THEN Goto(w, t) /\ UNCHANGED lease ELSE EndAttempt(w)

-----------------------------------------------------------------------------
(* Resolution of the members *)

\* Where an attempt goes on from a ledger row.
Resume(m, row) ==
    IF row.outcomes = None THEN [pc |-> "pin", of |-> m, row |-> row]
    ELSE CASE row.state = "WAITING" ->
                  [pc |-> "resolve", of |-> m, row |-> row,
                   todo |-> {p \in Portfolio : row.outcomes[p] = "WAITING"}]
           [] row.state = "PUBLISHING" -> [pc |-> "define", of |-> m, row |-> row]
           [] OTHER -> Idle

\* The replay of the registration returns the row as it stands.
Load(w) ==
    /\ task[w].pc = "load"
    /\ DefinitionExclusive
    /\ LET t == Resume(task[w].of, ledger[task[w].of])
       IN  IF t = Idle THEN EndAttempt(w) ELSE FenceThen(w, t)
    /\ UNCHANGED <<ledger, store, read, attempts>>

\* Save row `to` next, then go on as `then` says.  A source is read between
\* two fences, the second of which subsumes the first.
SaveNext(w, to, then, todo) ==
    FenceThen(w, [pc |-> "save", of |-> task[w].of, row |-> task[w].row,
                  to |-> [to EXCEPT !.revision = @ + 1], then |-> then, todo |-> todo])

\* The membership source answers with the eligibility of each expected member,
\* or fails for now, or refuses.
PinSource(w) ==
    /\ task[w].pc = "pin"
    /\ \/ \E o \in [Portfolio -> {"WAITING", "EXCLUDED", "BLOCKED"}] :
            SaveNext(w, [task[w].row EXCEPT !.outcomes = o], "resume", {})
       \/ \E s \in {"WAITING", "BLOCKED"} :
            SaveNext(w, [task[w].row EXCEPT !.state = s], "raise", {})
    /\ UNCHANGED <<ledger, store, read, attempts>>

\* Inspect a waiting member.  The limit on the members inspected in an attempt
\* shows as members that are left waiting.
ResolveMember(w, p) ==
    /\ task[w].pc = "resolve"
    /\ p \in task[w].todo
    /\ \E o \in {"WAITING", "BLOCKED"} \cup Content :
         SaveNext(w, [task[w].row EXCEPT !.outcomes[p] = o], "resolve", task[w].todo \ {p})
    /\ UNCHANGED <<ledger, store, read, attempts>>

ReleaseState(o) ==
    IF \E p \in Portfolio : o[p] = "BLOCKED" THEN "BLOCKED"
    ELSE IF \E p \in Portfolio : o[p] = "WAITING" THEN "WAITING"
    ELSE IF \A p \in Portfolio : o[p] = "EXCLUDED" THEN "BLOCKED"
    ELSE "PUBLISHING"

Release(w) ==
    /\ task[w].pc = "resolve"
    /\ task[w].todo = {}
    /\ SaveNext(w, [task[w].row EXCEPT !.state = ReleaseState(task[w].row.outcomes)], "release", {})
    /\ UNCHANGED <<ledger, store, read, attempts>>

\* What require_progress_transition admits.
Transition(from, to) ==
    /\ <<from.state, to.state>> \in
           {<<"WAITING", "WAITING">>, <<"WAITING", "PUBLISHING">>, <<"WAITING", "BLOCKED">>,
            <<"PUBLISHING", "PUBLISHING">>, <<"PUBLISHING", "COMPLETE">>}
    /\ IF to.outcomes = None
       THEN from.outcomes = None /\ to.state \in {"WAITING", "BLOCKED"}
       ELSE /\ from.outcomes # None =>
                   \A p \in Portfolio : from.outcomes[p] \in {"WAITING", to.outcomes[p]}
            /\ to.state \in {"PUBLISHING", "COMPLETE"} =>
                   /\ \A p \in Portfolio : to.outcomes[p] \in {"EXCLUDED"} \cup Content
                   /\ Ready(to) # {}

\* The exact publication a COMPLETE row requires.
CompletedPublication(m, row) ==
    \E p \in PublicationsOf(row.sequence) :
        /\ p.window = row.window
        /\ p.lineage = m
        /\ p.families = Families(MemberFacts(m, row))

\* Mutant: a save overwrites whatever row it finds.
SaveUnconditionally(m, from, to) == TRUE
\* A save compares the revision it started from.
SaveAdmitted(m, from, to) ==
    /\ ledger[m].revision = from.revision
    /\ Transition(ledger[m], to)
    /\ to.state = "COMPLETE" => CompletedPublication(m, to)

\* Where the attempt goes after a save.
AfterSave(m, t) ==
    CASE t.then = "resume" -> Resume(m, t.to)
      [] t.then = "release" -> IF t.to.state = "PUBLISHING" THEN Resume(m, t.to) ELSE Idle
      [] t.then = "resolve" -> [pc |-> "resolve", of |-> m, row |-> t.to, todo |-> t.todo]
      [] OTHER -> Idle

Save(w) ==
    LET m == task[w].of
        t == AfterSave(m, task[w])
    IN  /\ task[w].pc = "save"
        /\ DefinitionExclusive
        /\ IF SaveAdmitted(m, task[w].row, task[w].to)
           THEN /\ ledger' = [ledger EXCEPT ![m] = task[w].to]
                /\ IF t = Idle THEN EndAttempt(w) ELSE FenceThen(w, t)
           ELSE EndAttempt(w) /\ UNCHANGED ledger
        /\ UNCHANGED <<store, read, attempts>>

-----------------------------------------------------------------------------
(* Publication: the store's operations, called by attempts and the script *)

\* Everything process p publishes, and the control state that follows.
Published(p) == IF p = Seeder THEN SeedFacts ELSE MemberFacts(task[p].of, task[p].row)
Advance(p, t) == IF p = Seeder THEN Goto(p, t) /\ UNCHANGED lease ELSE FenceThen(p, t)
Publishing(p, pc, writes) == [pc |-> pc, of |-> task[p].of, row |-> task[p].row, writes |-> writes]
\* The call raises, or was the last.
Raise(p) == IF p = Seeder THEN Goto(p, Idle) /\ UNCHANGED lease ELSE EndAttempt(p)

UpsertDefinition(p) ==
    /\ task[p].pc = "define"
    /\ DefinitionExclusive
    /\ defined' = TRUE
    /\ Advance(p, Publishing(p, "facts", Published(p)))
    /\ UNCHANGED <<ledger, facts, publications, read, attempts>>

\* upsert_member_return_fact up to its commit: an identity already stored is
\* accepted or refused by its payload, and a completed sequence accepts no
\* family, as the trigger on the insert checks again under the same lock.
CheckFact(p, f) ==
    /\ task[p].pc = "facts"
    /\ f \in task[p].writes
    /\ DefinitionShared
    /\ PublicationLock(p, f.sequence, FALSE)
    /\ IF ~ defined
       THEN Raise(p)
       ELSE IF Collision(f) # {}
       THEN IF f \in Collision(f)
            THEN Advance(p, Publishing(p, "facts", task[p].writes \ {f}))
            ELSE Raise(p)
       ELSE IF PublicationsOf(f.sequence) # {}
       THEN Raise(p)
       ELSE /\ Goto(p, [pc |-> "insert_fact", of |-> task[p].of, row |-> task[p].row,
                        writes |-> task[p].writes, fact |-> f])
            /\ UNCHANGED lease
    /\ UNCHANGED <<ledger, store, read, attempts>>

\* The fact becomes visible.  A fact of the same identity that was committed
\* first breaks a unique index: the stored fact is then compared once more.
CommitFact(p) ==
    LET f == task[p].fact
    IN  /\ task[p].pc = "insert_fact"
        /\ IF Collision(f) \subseteq {f}
           THEN Advance(p, Publishing(p, "facts", task[p].writes \ {f}))
           ELSE Raise(p)
        /\ facts' = IF Collision(f) = {} THEN facts \cup {f} ELSE facts
        /\ UNCHANGED <<ledger, publications, defined, read, attempts>>

PublicationRow(p) ==
    [sequence |-> task[p].row.sequence, window |-> task[p].row.window,
     families |-> Families(Published(p)), lineage |-> task[p].of]

\* What follows the completion: an attempt saves its row as COMPLETE.
AfterPublication(p) ==
    IF p = Seeder THEN Raise(p)
    ELSE SaveNext(p, [task[p].row EXCEPT !.state = "COMPLETE"], "finish", {})

\* complete_member_return_fact_publication up to its commit: the stored families
\* must be exactly the expected ones, as the trigger on the insert checks again
\* under the same lock.
CheckPublication(p) ==
    LET s == task[p].row.sequence
    IN  /\ task[p].pc = "facts"
        /\ task[p].writes = {}
        /\ DefinitionShared
        /\ PublicationLock(p, s, TRUE)
        /\ IF ~ defined \/ Families(FactsOf(s)) # Families(Published(p))
           THEN Raise(p)
           ELSE IF PublicationsOf(s) # {}
           THEN IF PublicationRow(p) \in publications
                THEN AfterPublication(p)
                ELSE Raise(p)
           ELSE Goto(p, Publishing(p, "insert_publication", {})) /\ UNCHANGED lease
        /\ UNCHANGED <<ledger, store, read, attempts>>

\* The publication becomes visible.
CommitPublication(p) ==
    /\ task[p].pc = "insert_publication"
    /\ IF PublicationsOf(task[p].row.sequence) = {}
       THEN publications' = publications \cup {PublicationRow(p)} /\ AfterPublication(p)
       ELSE Raise(p) /\ UNCHANGED publications
    /\ UNCHANGED <<ledger, facts, defined, read, attempts>>

-----------------------------------------------------------------------------
(* The script (scripts/demo_api_certification): maintenance, then seeding *)

SeedRow == [sequence |-> 1, window |-> UNION {f[2] : f \in SeedFamilies}]
SeedTask(pc) == [pc |-> pc, of |-> Seeder, row |-> SeedRow]

\* Mutant: maintenance does not look for materializations.
MaintenanceAlways == TRUE
\* Maintenance is refused while a materialization of the composite exists.
MaintenanceSafe == \A m \in Materialization : ledger[m] = None

BeginMaintenance ==
    /\ task[Seeder].pc = "idle"
    /\ DefinitionExclusive
    /\ MaintenanceSafe
    /\ Goto(Seeder, SeedTask("lock_facts"))
    /\ UNCHANGED <<ledger, store, lease, read, attempts>>

\* A reader holds a table from its first statement on it to its end.
ReaderHolds(t) == read.pc # "idle" /\ t \in read.held

LockFacts ==
    /\ task[Seeder].pc = "lock_facts"
    /\ ~ ReaderHolds("facts")
    /\ Goto(Seeder, SeedTask("lock_publications"))
    /\ UNCHANGED <<ledger, store, lease, read, attempts>>

\* With both tables the guards are dropped, the rows deleted and the guards
\* created again in one transaction.
Clear ==
    /\ task[Seeder].pc = "lock_publications"
    /\ ~ ReaderHolds("publications")
    /\ facts' = {}
    /\ publications' = {}
    /\ defined' = FALSE
    /\ Goto(Seeder, SeedTask("define"))
    /\ UNCHANGED <<ledger, lease, read, attempts>>

\* A process dies, and the transaction it is in with it.  An attempt that dies
\* outside of one is an attempt that takes no further step.
Crash(p) ==
    /\ task[p].pc # "idle"
    /\ p = Seeder \/ task[p].pc \in {"insert_fact", "insert_publication"}
    /\ Goto(p, Idle)
    /\ UNCHANGED <<ledger, store, lease, read, attempts>>

-----------------------------------------------------------------------------
(* The reader: list_member_return_facts, a Read Committed transaction *)

Refuse == read' = Idle
Touch(r, t) == [r EXCEPT !.held = @ \cup {t}]

\* A publication whose materialization, if it has one, is complete.
Released(p) == p.lineage \in Materialization => ledger[p.lineage].state = "COMPLETE"

\* Mutant: a latest read asks only for its own sequence.
UnreleasedAt(w, s, latest) ==
    {m \in Materialization :
        /\ ledger[m] # None
        /\ ledger[m].sequence = s
        /\ ledger[m].window \cap w # {}
        /\ ledger[m].state # "COMPLETE"}
\* Materializations over window w that are not completely published: of
\* sequence s or, for a latest read, from sequence s on.
Unreleased(w, s, latest) ==
    {m \in Materialization :
        /\ ledger[m] # None
        /\ IF latest THEN ledger[m].sequence >= s ELSE ledger[m].sequence = s
        /\ ledger[m].window \cap w # {}
        /\ ledger[m].state # "COMPLETE"}

\* A read of window w; `released` and `open` remember what a fresh answer must
\* take into account.
NewRead(pc, w, latest, s, held) ==
    /\ read.pc = "idle"
    /\ read' = [pc |-> pc, window |-> w, latest |-> latest, sequence |-> s, held |-> held,
                expected |-> None, rows |-> {},
                released |-> Largest({p.sequence : p \in {q \in publications :
                                        w \subseteq q.window /\ Released(q)}}),
                open |-> {m \in Materialization :
                             ledger[m] # None /\ ledger[m].window \cap w # {}}]

\* A read of the latest sequence begins with that of the facts in the window.
LatestFact(w) ==
    /\ TableReadable("facts")
    /\ NewRead("latest_publication", w, TRUE,
               Largest({f.sequence : f \in {g \in facts : g.window \subseteq w}}), {"facts"})
    /\ UNCHANGED <<ledger, store, lease, task, attempts>>

\* A read of an explicit sequence begins with the check of the ledger.
ExplicitRead(w, s) ==
    /\ Unreleased(w, s, FALSE) = {}
    /\ NewRead("families", w, FALSE, s, {})
    /\ UNCHANGED <<ledger, store, lease, task, attempts>>

\* The latest sequence over the facts and the covering publications.
LatestSequence(s) ==
    Largest({s} \cup {p.sequence : p \in {q \in publications : read.window \subseteq q.window}})

\* With neither a fact nor a covering publication the answer is empty, and the
\* ledger is not looked at.
LatestPublication ==
    /\ read.pc = "latest_publication"
    /\ TableReadable("publications")
    /\ LET s == LatestSequence(read.sequence)
           pc == IF s = 0 THEN "returned" ELSE "unreleased"
       IN  read' = Touch([read EXCEPT !.pc = pc, !.sequence = s], "publications")
    /\ UNCHANGED <<ledger, store, lease, task, attempts>>

CheckUnreleased ==
    /\ read.pc = "unreleased"
    /\ IF Unreleased(read.window, read.sequence, TRUE) = {}
       THEN read' = [read EXCEPT !.pc = "families"]
       ELSE Refuse
    /\ UNCHANGED <<ledger, store, lease, task, attempts>>

PublishedFamilies ==
    /\ read.pc = "families"
    /\ TableReadable("publications")
    /\ LET ps == PublicationsOf(read.sequence)
           next == Touch([read EXCEPT !.pc = "rows"], "publications")
       IN  \/ ps = {} /\ read' = next
           \/ \E p \in ps :
                IF read.window \subseteq p.window
                THEN read' = [next EXCEPT !.expected = Within(p.families, read.window)]
                ELSE Refuse
    /\ UNCHANGED <<ledger, store, lease, task, attempts>>

Selected == {f \in FactsOf(read.sequence) : f.window \subseteq read.window}

\* Mutant: a latest selection needs no publication.
SelectionWithoutManifest(rows) ==
    IF read.expected # None THEN Families(rows) = read.expected ELSE rows # {}
\* The selected rows are the published universe; only an explicit selection may
\* do without a publication.
SelectionValid(rows) ==
    IF read.expected # None THEN Families(rows) = read.expected ELSE ~ read.latest /\ rows # {}

\* The families of the selected rows are authorized, the rows are read, and the
\* families are read again and compared: as facts of a sequence are only ever
\* added while a reader holds their table, an answer has all three alike.
ReadRows ==
    /\ read.pc = "rows"
    /\ TableReadable("facts")
    /\ IF SelectionValid(Selected)
       THEN read' = Touch([read EXCEPT !.pc = "returned", !.rows = Selected], "facts")
       ELSE Refuse
    /\ UNCHANGED <<ledger, store, lease, task, attempts>>

EndRead ==
    /\ read.pc = "returned"
    /\ Refuse
    /\ UNCHANGED <<ledger, store, lease, task, attempts>>

\* A reader that has read the publications waits for the facts, maintenance
\* that has the facts for the publications: PostgreSQL aborts one of them.
DeadlockVictim ==
    /\ task[Seeder].pc = "lock_publications"
    /\ ReaderHolds("publications")
    /\ read.pc = "rows"
    /\ \/ Refuse /\ UNCHANGED task
       \/ Goto(Seeder, Idle) /\ UNCHANGED read
    /\ UNCHANGED <<ledger, store, lease, attempts>>

-----------------------------------------------------------------------------
Attempt(w) ==
    \/ \E m \in Materialization : Claim(w, m)
    \/ Load(w)
    \/ PinSource(w)
    \/ \E p \in Portfolio : ResolveMember(w, p)
    \/ Release(w)
    \/ Save(w)

StoreCall(p) ==
    \/ UpsertDefinition(p)
    \/ task[p].pc = "facts" /\ \E f \in task[p].writes : CheckFact(p, f)
    \/ CommitFact(p)
    \/ CheckPublication(p)
    \/ CommitPublication(p)
    \/ Crash(p)

Maintenance == BeginMaintenance \/ LockFacts \/ Clear

Reader ==
    \/ \E r \in Request : r[2] = 0 /\ LatestFact(r[1])
    \/ \E r \in Request : r[2] > 0 /\ ExplicitRead(r[1], r[2])
    \/ LatestPublication
    \/ CheckUnreleased
    \/ PublishedFamilies
    \/ ReadRows
    \/ EndRead
    \/ DeadlockVictim

Next ==
    \/ \E m \in Materialization, s \in Sequence, w \in CommandWindow : Submit(m, s, w)
    \/ \E w \in Worker : Attempt(w)
    \/ \E p \in Process : StoreCall(p)
    \/ Maintenance
    \/ Reader

Spec == Init /\ [][Next]_vars

-----------------------------------------------------------------------------
(* Properties *)

\* Rows are well formed and respect the primary key of the publications and the
\* two unique indexes of the facts (CompositeMemberReturnFactModel).
TypeOK ==
    /\ \A m \in Materialization : ledger[m] # None => ledger[m] \in Row
    /\ facts \in SUBSET Fact
    /\ publications \in SUBSET Publication
    /\ defined \in BOOLEAN
    /\ lease \in [Materialization -> Worker \cup {None}]
    /\ \A f, g \in facts :
          /\ <<f.portfolio, f.window>> = <<g.portfolio, g.window>>
          /\ f.sequence = g.sequence \/ f.version = g.version
          => f = g
    /\ \A p, q \in publications : p.sequence = q.sequence => p = q

\* A publication names exactly the families stored for its sequence, whatever
\* writers, completions, retries and crashes overlapped when it was made
\* (complete_member_return_fact_publication and the lock it shares with
\* upsert_member_return_fact).
PublicationIsExact ==
    \A p \in publications : Families(FactsOf(p.sequence)) = p.families

\* The ledger and the facts agree: a COMPLETE materialization has its own
\* publication, and the facts of a materialization's publication are, content
\* and all, the outcomes its ledger row settled on, even when attempts that had
\* lost their lease went on writing (_publish and CompositeMaterializationStore.save).
LedgerMatchesFacts ==
    \A m \in Materialization :
        ledger[m] # None =>
            /\ ledger[m].state = "COMPLETE" => CompletedPublication(m, ledger[m])
            /\ \A p \in PublicationsOf(ledger[m].sequence) :
                  p.lineage = m => /\ ledger[m].state \in {"PUBLISHING", "COMPLETE"}
                                   /\ FactsOf(p.sequence) = MemberFacts(m, ledger[m])

\* A latest read that selected a sequence answers with exactly the facts a
\* publication of that sequence has in the window, of a materialization that is
\* complete; one that found none answers without facts
\* (list_member_return_facts, statement by statement under Read Committed).
LatestReadIsPublished ==
    (read.pc = "returned" /\ read.latest) =>
        \/ read.sequence = 0 /\ read.rows = {}
        \/ \E p \in PublicationsOf(read.sequence) :
              /\ read.window \subseteq p.window
              /\ Released(p)
              /\ read.rows = Selected
              /\ Families(read.rows) = Within(p.families, read.window)

\* A latest read is not older than what was released when it began: it answers
\* without facts (sequence 0) only if nothing that covers its window was.  An
\* answer with a sequence is not given while a materialization over the window
\* that was registered when the read began, and lies above the answer, is still
\* open; the empty answer may be, for the code returns it before it looks at
\* the ledger (_resolve_member_return_fact_sequence and the check for
\* unreleased materializations).
LatestReadIsFresh ==
    (read.pc = "returned" /\ read.latest) =>
        /\ read.released <= read.sequence
        /\ read.sequence > 0 =>
              \A m \in read.open : ledger[m].sequence > read.sequence => ledger[m].state = "COMPLETE"

\* What is published stays as it is: no step takes a publication away or
\* touches a fact of its sequence, but for maintenance, and that only while the
\* ledger is empty (the immutability triggers, the maintenance guards).
PublishedIsImmutable ==
    [][\A p \in publications :
          \/ p \in publications' /\ FactsOf(p.sequence)' = FactsOf(p.sequence)
          \/ publications' = {} /\ \A m \in Materialization : ledger'[m] = None]_vars

=============================================================================
