------------------------ MODULE CompositeFactsProofs ------------------------
(***************************************************************************)
(* Theorems about CompositeFacts, for any number of materializations,      *)
(* workers, members, windows and claims.                                   *)
(*                                                                         *)
(* The inductive invariant says what each process relies on while it is    *)
(* between two transactions.  The row an attempt works with is one its     *)
(* ledger row has been (Known), and a row that is being published has its  *)
(* outcomes for good; what an attempt or the script has written of its     *)
(* facts is stored (Writing), and what it checked under its lock still     *)
(* holds when it commits (Locks); a latest read keeps maintenance away     *)
(* and is anchored in a fact or publication that its later statements      *)
(* meet again (Reading).                                                   *)
(***************************************************************************)
EXTENDS CompositeFacts, WellFoundedInduction, TLAPS

Inserting == {"insert_fact", "insert_publication"}
Writer == {"facts"} \cup Inserting
Publisher == {"define"} \cup Writer
Holder == {"pin", "resolve", "save"} \cup Publisher

Outcomes == [Portfolio -> {"WAITING", "EXCLUDED", "BLOCKED"} \cup Content]

(* A row that is published or being published has final outcomes.          *)
Settled(row) ==
    row.state \in {"PUBLISHING", "COMPLETE"} =>
        row.outcomes # None /\ \A p \in Portfolio : row.outcomes[p] \in {"EXCLUDED"} \cup Content

LedgerInv ==
    /\ DOMAIN ledger = Materialization
    /\ \A m \in Materialization : ledger[m] # None => ledger[m] \in Row /\ Settled(ledger[m])

(* What is stored under the name of a materialization agrees with its row. *)
LineageInv ==
    /\ \A f \in facts : f.version \in Materialization =>
          /\ ledger[f.version] # None
          /\ ledger[f.version].sequence = f.sequence /\ ledger[f.version].window = f.window
    /\ \A q \in publications : q.lineage \in Materialization =>
          /\ ledger[q.lineage] # None
          /\ ledger[q.lineage].sequence = q.sequence /\ ledger[q.lineage].window = q.window

(* row is, or has been, the ledger row of m.                               *)
Known(m, row) ==
    /\ row \in Row
    /\ row.sequence = ledger[m].sequence /\ row.window = ledger[m].window
    /\ row.revision <= ledger[m].revision
    /\ row.revision = ledger[m].revision => row = ledger[m]
    /\ row.state = "PUBLISHING" =>
          /\ Settled(row)
          /\ row.outcomes = ledger[m].outcomes /\ ledger[m].state \in {"PUBLISHING", "COMPLETE"}

(* The control state of an attempt.                                        *)
Working(t) ==
    /\ t.pc \in {"idle", "load"} \cup Holder
    /\ t.pc # "idle" => t.of \in Materialization /\ ledger[t.of] # None
    /\ t.pc \in Holder => Known(t.of, t.row)
    /\ t.pc \in Publisher => t.row.state = "PUBLISHING"
    /\ t.pc = "resolve" => t.row.outcomes \in Outcomes
    /\ t.pc = "save" =>
          /\ t.to \in Row
          /\ t.to.sequence = t.row.sequence /\ t.to.window = t.row.window
          /\ t.to.revision = t.row.revision + 1
          /\ t.then = "resolve" => t.to.outcomes \in Outcomes

(* The control state of the script.                                        *)
Seeding(t) ==
    /\ t.pc \in {"idle", "lock_facts", "lock_publications"} \cup Publisher
    /\ t.pc # "idle" => t.of = Seeder /\ t.row = SeedRow
    /\ t.pc \in {"lock_facts", "lock_publications"} => \A m \in Materialization : ledger[m] = None

(* Everything a writer publishes.                                          *)
Manifest(t) == IF t.of = Seeder THEN SeedFacts ELSE MemberFacts(t.of, t.row)

Writing(t) ==
    /\ t.pc \in Writer => t.writes \subseteq Manifest(t) /\ Manifest(t) \ t.writes \subseteq facts
    /\ t.pc = "insert_fact" => t.fact \in t.writes /\ PublicationsOf(t.row.sequence) = {}
    /\ t.pc = "insert_publication" =>
          t.writes = {} /\ Families(FactsOf(t.row.sequence)) = Families(Manifest(t))

(* A completion has its sequence for itself.                               *)
Apart(t, u) ==
    t.pc = "insert_publication" /\ u.pc \in Inserting => t.row.sequence # u.row.sequence

Locks == \A p, q \in Process : p # q => Apart(task[p], task[q])

(* The anchor of a latest read: a fact or a publication of its sequence.   *)
FactAnchor(r, f) == f.sequence = r.sequence /\ f.window \subseteq r.window
PublicationAnchor(r, s, q) == q.sequence = s /\ r.window \subseteq q.window
Anchored(r) ==
    \/ \E f \in facts : FactAnchor(r, f)
    \/ \E q \in publications : PublicationAnchor(r, r.sequence, q)
AnchorReleased(r) ==
    \/ \E f \in facts : /\ FactAnchor(r, f)
                        /\ f.version \in Materialization => ledger[f.version].state = "COMPLETE"
    \/ \E q \in publications : PublicationAnchor(r, r.sequence, q) /\ Released(q)

OpenKnown(r) ==
    \A m \in r.open : m \in Materialization /\ ledger[m] # None /\ ledger[m].window \cap r.window # {}
Fresh(r) ==
    /\ r.released <= r.sequence
    /\ \A m \in r.open : ledger[m].sequence > r.sequence => ledger[m].state = "COMPLETE"

(* The publication that answers a latest read.                             *)
Answer(r, q) ==
    /\ PublicationAnchor(r, r.sequence, q)
    /\ r.expected = Within(q.families, r.window)

Answered(r) ==
    \E q \in publications :
        /\ PublicationAnchor(r, r.sequence, q)
        /\ Released(q)
        /\ r.rows = {f \in FactsOf(r.sequence) : f.window \subseteq r.window}
        /\ Families(r.rows) = Within(q.families, r.window)

(* The answer of a latest read that found no sequence.                     *)
Empty(r) == r.sequence = 0 /\ r.rows = {} /\ r.released = 0

ReadPC == {"latest_publication", "unreleased", "families", "rows", "returned"}
ReadRecord ==
    [pc : ReadPC, window : Window, latest : BOOLEAN, sequence : Nat, released : Nat,
     held : SUBSET {"facts", "publications"}, expected : {None} \cup SUBSET (Portfolio \X Window),
     rows : SUBSET Fact, open : SUBSET Materialization]
Reading(r) ==
    /\ r.pc \in {"idle"} \cup ReadPC
    /\ r.pc \in ReadPC => r \in ReadRecord
    /\ r.pc \in {"latest_publication", "unreleased", "families"} => r.expected = None
    /\ r.pc \in {"latest_publication", "unreleased"} => r.latest
    /\ r.pc \in ReadPC /\ r.latest =>
          /\ "facts" \in r.held
          /\ OpenKnown(r)
          /\ r.pc = "latest_publication" =>
                /\ r.rows = {}
                /\ r.sequence = 0 \/ \E f \in facts : FactAnchor(r, f)
                /\ r.released = 0 \/ \E q \in publications : PublicationAnchor(r, r.released, q)
          /\ r.pc = "unreleased" => Anchored(r) /\ r.released <= r.sequence
          /\ r.pc \in {"families", "rows"} => AnchorReleased(r) /\ Fresh(r)
          /\ r.pc = "rows" /\ r.expected # None => \E q \in publications : Answer(r, q)
          /\ r.pc = "returned" => Empty(r) \/ (Fresh(r) /\ Answered(r))

(* A reader that has read facts keeps maintenance from them.               *)
Blocking == ReaderHolds("facts") => task[Seeder].pc # "lock_publications"

CompositeInv ==
    /\ TypeOK
    /\ LedgerInv
    /\ LineageInv
    /\ PublicationIsExact
    /\ LedgerMatchesFacts
    /\ DOMAIN task = Process
    /\ \A w \in Worker : Working(task[w])
    /\ Seeding(task[Seeder])
    /\ \A p \in Process : Writing(task[p])
    /\ Locks
    /\ Reading(read)
    /\ Blocking

-----------------------------------------------------------------------------
(* What no step undoes: a ledger row only moves on, and what is published   *)
(* or being published stays.                                                *)
LedgerLater ==
    \A m \in Materialization : ledger[m] # None =>
        /\ ledger'[m] # None
        /\ ledger'[m].sequence = ledger[m].sequence /\ ledger'[m].window = ledger[m].window
        /\ ledger[m].revision <= ledger'[m].revision
        /\ ledger'[m].revision = ledger[m].revision => ledger'[m] = ledger[m]
        /\ ledger[m].state = "PUBLISHING" =>
              /\ ledger'[m].outcomes = ledger[m].outcomes
              /\ ledger'[m].state \in {"PUBLISHING", "COMPLETE"}
        /\ ledger[m].state = "COMPLETE" => ledger'[m] = ledger[m]

(* Nothing is deleted and no published sequence gets another fact.          *)
StoreLater ==
    /\ facts \subseteq facts'
    /\ publications \subseteq publications'
    /\ \A q \in publications : \A f \in facts' : f.sequence = q.sequence => f \in facts

LEMMA KnownKept ==
    ASSUME LedgerInv, LedgerInv', LedgerLater, NEW m \in Materialization, ledger[m] # None,
           NEW row, Known(m, row)
    PROVE  Known(m, row)'
<1>1. ledger[m] \in Row /\ ledger'[m] # None /\ ledger'[m] \in Row
  BY DEF LedgerInv, LedgerLater
<1>2. row.revision \in Nat /\ ledger[m].revision \in Nat /\ ledger'[m].revision \in Nat
  BY <1>1 DEF Known, Row
<1>3. row.revision <= ledger'[m].revision
      /\ (row.revision = ledger'[m].revision => row = ledger'[m])
  BY <1>2 DEF Known, LedgerLater
<1>4. row.state = "PUBLISHING" =>
          /\ Settled(row)
          /\ row.outcomes = ledger'[m].outcomes /\ ledger'[m].state \in {"PUBLISHING", "COMPLETE"}
  BY DEF Known, LedgerLater
<1> QED
  BY <1>3, <1>4 DEF Known, LedgerLater, Settled

LEMMA WorkingKept ==
    ASSUME LedgerInv, LedgerInv', LedgerLater, NEW t, Working(t)
    PROVE  Working(t)'
<1>1. t.pc # "idle" => t.of \in Materialization /\ ledger[t.of] # None /\ ledger'[t.of] # None
  BY DEF Working, LedgerLater
<1>2. t.pc \in Holder => Known(t.of, t.row)'
  BY <1>1, KnownKept DEF Working, Holder, Publisher, Writer, Inserting
<1> QED
  BY <1>1, <1>2 DEF Working

(* A fact or publication that answers for a read stays, with its ledger row. *)
LEMMA ReleasedKept ==
    ASSUME LedgerLater, LineageInv
    PROVE  /\ \A q \in publications : Released(q) => Released(q)'
           /\ \A f \in facts :
                 (f.version \in Materialization => ledger[f.version].state = "COMPLETE")
                 => (f.version \in Materialization => ledger'[f.version].state = "COMPLETE")
BY DEF LedgerLater, LineageInv, Released

LEMMA AnchorsKept ==
    ASSUME LedgerLater, StoreLater, LineageInv, NEW r
    PROVE  /\ Anchored(r) => Anchored(r)'
           /\ AnchorReleased(r) => AnchorReleased(r)'
<1>1. Anchored(r) => Anchored(r)'
  BY DEF StoreLater, Anchored, FactAnchor, PublicationAnchor
<1>2. AnchorReleased(r) => AnchorReleased(r)'
  BY ReleasedKept DEF StoreLater, AnchorReleased, FactAnchor, PublicationAnchor
<1> QED
  BY <1>1, <1>2

LEMMA OpenKept ==
    ASSUME LedgerLater, NEW r, OpenKnown(r)
    PROVE  /\ OpenKnown(r)'
           /\ Fresh(r) => Fresh(r)'
BY DEF LedgerLater, OpenKnown, Fresh

LEMMA ReadingKept ==
    ASSUME LedgerLater, StoreLater, LineageInv, NEW r, Reading(r)
    PROVE  Reading(r)'
<1> USE DEF ReadPC
<1>1. CASE ~ (r.pc \in ReadPC /\ r.latest)
  BY <1>1 DEF Reading
<1>2. CASE r.pc \in ReadPC /\ r.latest
  <2>1. OpenKnown(r)' /\ (Fresh(r) => Fresh(r)')
    BY <1>2, OpenKept DEF Reading
  <2>2. (Anchored(r) => Anchored(r)') /\ (AnchorReleased(r) => AnchorReleased(r)')
    BY AnchorsKept
  <2>3. r.pc = "latest_publication" =>
            /\ r.rows = {}
            /\ r.sequence = 0 \/ \E f \in facts' : FactAnchor(r, f)
            /\ r.released = 0 \/ \E q \in publications' : PublicationAnchor(r, r.released, q)
    BY <1>2 DEF Reading, StoreLater
  <2>4. r.pc = "rows" /\ r.expected # None => \E q \in publications' : Answer(r, q)
    BY <1>2 DEF Reading, StoreLater
  <2>5. ASSUME Answered(r)
        PROVE  Answered(r)'
    <3>1. PICK q \in publications :
              /\ PublicationAnchor(r, r.sequence, q)
              /\ Released(q)
              /\ r.rows = {f \in FactsOf(r.sequence) : f.window \subseteq r.window}
              /\ Families(r.rows) = Within(q.families, r.window)
      BY <2>5 DEF Answered
    <3>2. FactsOf(r.sequence)' = FactsOf(r.sequence)
      BY <3>1 DEF StoreLater, FactsOf, PublicationAnchor
    <3>3. q \in publications' /\ Released(q)'
      BY <3>1, ReleasedKept DEF StoreLater
    <3> QED
      BY <3>1, <3>2, <3>3 DEF Answered, PublicationAnchor, Families, Within
  <2>6. r.pc = "returned" => Empty(r)' \/ (Fresh(r)' /\ Answered(r)')
    BY <1>2, <2>1, <2>5 DEF Reading, Empty
  <2> QED
    BY <1>2, <2>1, <2>2, <2>3, <2>4, <2>6 DEF Reading, FactAnchor, PublicationAnchor, Answer, Within, Families
<1> QED
  BY <1>1, <1>2

-----------------------------------------------------------------------------
(* One process p moves to t, the others stay where they are.                *)

LEMMA LocksKept ==
    ASSUME Locks, NEW p \in Process, NEW t, task'[p] = t,
           \A q \in Process \ {p} : task'[q] = task[q] /\ Apart(t, task[q]) /\ Apart(task[q], t)
    PROVE  Locks'
<1> SUFFICES ASSUME NEW a \in Process, NEW b \in Process, a # b
             PROVE  Apart(task'[a], task'[b])
  BY DEF Locks, Apart
<1>1. CASE a = p
  BY <1>1
<1>2. CASE b = p
  BY <1>2
<1>3. CASE a # p /\ b # p
  BY <1>3 DEF Locks
<1> QED
  BY <1>1, <1>2, <1>3

(* LedgerMatchesFacts, for one row.                                         *)
Agrees(m, row) ==
    /\ row.state = "COMPLETE" => CompletedPublication(m, row)
    /\ \A q \in PublicationsOf(row.sequence) :
          q.lineage = m => /\ row.state \in {"PUBLISHING", "COMPLETE"}
                           /\ FactsOf(q.sequence) = MemberFacts(m, row)

LEMMA Agreement ==
    /\ LedgerMatchesFacts <=> \A m \in Materialization : ledger[m] # None => Agrees(m, ledger[m])
    /\ LedgerMatchesFacts' <=>
          \A m \in Materialization : ledger'[m] # None => \A row : row = ledger'[m] => Agrees(m, row)'
BY DEF LedgerMatchesFacts, Agrees

(* Agreement is about the facts and publications of the row's sequence.     *)
LEMMA AgreementKept ==
    ASSUME NEW m, NEW row, Agrees(m, row), publications \subseteq publications',
           PublicationsOf(row.sequence)' = PublicationsOf(row.sequence),
           PublicationsOf(row.sequence) # {} => FactsOf(row.sequence)' = FactsOf(row.sequence)
    PROVE  Agrees(m, row)'
<1>1. MemberFacts(m, row)' = MemberFacts(m, row)
  BY DEF MemberFacts, Ready
<1>2. CompletedPublication(m, row) => CompletedPublication(m, row)'
  BY <1>1 DEF CompletedPublication, Families
<1>3. \A q \in PublicationsOf(row.sequence) : q.sequence = row.sequence
  BY DEF PublicationsOf
<1>4. \A q \in PublicationsOf(row.sequence) : FactsOf(q.sequence)' = FactsOf(q.sequence)
  BY <1>3
<1> QED
  BY <1>1, <1>2, <1>4 DEF Agrees

(* What the others rely on at their commits.                                *)
Undisturbed(t) ==
    /\ t.pc = "insert_fact" => \A q \in publications' : q.sequence # t.row.sequence
    /\ t.pc = "insert_publication" => \A f \in facts' : f.sequence = t.row.sequence => f \in facts

LEMMA WritingKept ==
    ASSUME facts \subseteq facts', NEW t, Writing(t), Undisturbed(t)
    PROVE  Writing(t)'
<1>1. Manifest(t)' = Manifest(t)
  BY DEF Manifest, SeedFacts, MemberFacts, Ready
<1>2. t.pc = "insert_publication" => FactsOf(t.row.sequence)' = FactsOf(t.row.sequence)
  BY DEF Undisturbed, FactsOf
<1>3. t.pc = "insert_fact" => PublicationsOf(t.row.sequence)' = {}
  BY DEF Undisturbed, PublicationsOf
<1> QED
  BY <1>1, <1>2, <1>3 DEF Writing, Families

LEMMA DataStep ==
    ASSUME CompositeInv, TypeOK', LedgerInv', LineageInv', PublicationIsExact', LedgerMatchesFacts',
           LedgerLater, StoreLater, UNCHANGED read,
           NEW p \in Process, NEW t, DOMAIN task' = Process, task'[p] = t,
           \A q \in Process \ {p} : /\ task'[q] = task[q]
                                    /\ Undisturbed(task[q])
                                    /\ Apart(t, task[q]) /\ Apart(task[q], t),
           p # Seeder => Working(t)',
           p = Seeder => Seeding(t)',
           p # Seeder /\ Maintaining => UNCHANGED ledger,
           Writing(t)',
           p = Seeder /\ t.pc = "lock_publications" => ~ ReaderHolds("facts")
    PROVE  CompositeInv'
<1> USE DEF CompositeInv
<1>1. \A w \in Worker : Working(task[w])'
  <2> SUFFICES ASSUME NEW w \in Worker
               PROVE  Working(task[w])'
    OBVIOUS
  <2>1. CASE w = p
    BY <2>1, CompositeAssumption
  <2>2. CASE w # p
    <3>1. PICK u : u = task[w]
      OBVIOUS
    <3>2. Working(u)'
      BY <3>1, WorkingKept
    <3>3. task'[w] = u
      BY <2>2, <3>1 DEF Process
    <3> QED
      BY <3>2, <3>3
  <2> QED
    BY <2>1, <2>2
<1>2. Seeding(task[Seeder])'
  <2>1. CASE p = Seeder
    BY <2>1
  <2>2. CASE p # Seeder
    <3>1. task'[Seeder] = task[Seeder]
      BY <2>2 DEF Process
    <3> QED
      BY <2>2, <3>1 DEF Seeding, SeedRow, Maintaining
  <2> QED
    BY <2>1, <2>2
<1>3. \A q \in Process : Writing(task[q])'
  <2> SUFFICES ASSUME NEW q \in Process
               PROVE  Writing(task[q])'
    OBVIOUS
  <2>1. CASE q = p
    BY <2>1
  <2>2. CASE q # p
    <3>1. PICK u : u = task[q]
      OBVIOUS
    <3>2. Writing(u) /\ Undisturbed(u)
      BY <2>2, <3>1
    <3>3. Writing(u)'
      BY <3>2, WritingKept DEF StoreLater
    <3>4. task'[q] = u
      BY <2>2, <3>1
    <3> QED
      BY <3>3, <3>4
  <2> QED
    BY <2>1, <2>2
<1>4. Locks'
  BY LocksKept
<1>5. Reading(read)'
  <2>1. PICK r : r = read
    OBVIOUS
  <2>2. Reading(r)'
    BY <2>1, ReadingKept
  <2> QED
    BY <2>1, <2>2
<1>6. Blocking'
  <2>1. p # Seeder => task'[Seeder] = task[Seeder]
    BY DEF Process
  <2> QED
    BY <2>1 DEF Blocking, ReaderHolds
<1> QED
  BY <1>1, <1>2, <1>3, <1>4, <1>5, <1>6

(* A step that leaves the stores alone.                                     *)
LEMMA ProcessStep ==
    ASSUME CompositeInv, UNCHANGED <<ledger, facts, publications, read>>,
           defined' \in BOOLEAN, lease' \in [Materialization -> Worker \cup {None}],
           NEW p \in Process, NEW t, task' = [task EXCEPT ![p] = t],
           p # Seeder => Working(t), p = Seeder => Seeding(t), Writing(t),
           \A q \in Process \ {p} : Apart(t, task[q]) /\ Apart(task[q], t),
           p = Seeder /\ t.pc = "lock_publications" => ~ ReaderHolds("facts")
    PROVE  CompositeInv'
<1> USE DEF CompositeInv
<1>1. TypeOK'
  BY DEF TypeOK
<1>2. LedgerInv' /\ LineageInv'
  BY DEF LedgerInv, LineageInv, Settled
<1>3. PublicationIsExact'
  BY DEF PublicationIsExact, FactsOf, Families
<1>4. LedgerMatchesFacts'
  <2>1. \A s : PublicationsOf(s)' = PublicationsOf(s) /\ FactsOf(s)' = FactsOf(s)
    BY DEF PublicationsOf, FactsOf
  <2>2. \A m, row : Agrees(m, row) => Agrees(m, row)'
    BY <2>1, AgreementKept
  <2> QED
    BY <2>2, Agreement
<1>5. LedgerLater /\ StoreLater
  <2>1. \A m \in Materialization : ledger[m] # None => ledger[m].revision \in Nat
    BY DEF LedgerInv, Row
  <2> QED
    BY <2>1 DEF LedgerLater, StoreLater
<1>6. \A q \in Process \ {p} : task'[q] = task[q] /\ Undisturbed(task[q])
  BY DEF Undisturbed, Writing, PublicationsOf
<1>7. DOMAIN task' = Process /\ task'[p] = t
  OBVIOUS
<1>8. p # Seeder => Working(t)'
  BY DEF Working, Known, Settled
<1>9. p = Seeder => Seeding(t)'
  BY DEF Seeding, SeedRow
<1>10. Writing(t)'
  BY DEF Writing, Manifest, MemberFacts, SeedFacts, Families, FactsOf, PublicationsOf, Ready
<1> QED
  BY <1>1, <1>2, <1>3, <1>4, <1>5, <1>6, <1>7, <1>8, <1>9, <1>10, DataStep

-----------------------------------------------------------------------------
(* Where a process may go without a write.                                  *)

LEMMA IdleTask ==
    /\ Working(Idle) /\ Seeding(Idle) /\ Writing(Idle) /\ Idle.pc = "idle"
    /\ \A t : Apart(Idle, t) /\ Apart(t, Idle)
BY DEF Working, Seeding, Writing, Apart, Idle, Inserting, Writer, Publisher, Holder

(* A worker that goes on with t, if its lease allows.                       *)
LEMMA FenceMoves ==
    ASSUME CompositeInv, NEW w \in Worker, task[w].pc # "idle",
           NEW t, FenceThen(w, t) \/ EndAttempt(w)
    PROVE  /\ lease' \in [Materialization -> Worker \cup {None}]
           /\ task' = [task EXCEPT ![w] = t] \/ task' = [task EXCEPT ![w] = Idle]
<1>1. task[w].of \in Materialization /\ lease \in [Materialization -> Worker \cup {None}]
  BY DEF CompositeInv, TypeOK, Working
<1> QED
  BY <1>1 DEF FenceThen, EndAttempt, Goto

(* A worker that moves outside of the commits of facts and publications.    *)
LEMMA WorkerMoves ==
    ASSUME CompositeInv, UNCHANGED <<ledger, facts, publications, read>>, defined' \in BOOLEAN,
           NEW w \in Worker, task[w].pc # "idle", NEW t, FenceThen(w, t) \/ EndAttempt(w),
           Working(t), Writing(t), t.pc \notin Inserting
    PROVE  CompositeInv'
<1>1. lease' \in [Materialization -> Worker \cup {None}]
  BY FenceMoves
<1>2. PICK u \in {t, Idle} : task' = [task EXCEPT ![w] = u]
  BY FenceMoves
<1>3. Working(u) /\ Writing(u) /\ u.pc \notin Inserting
  BY <1>2, IdleTask DEF Inserting
<1>4. \A q \in Process : Apart(u, task[q]) /\ Apart(task[q], u)
  BY <1>3 DEF Apart, Inserting
<1>5. w \in Process /\ w # Seeder
  BY CompositeAssumption DEF Process
<1> QED
  BY <1>1, <1>2, <1>3, <1>4, <1>5, ProcessStep

(* The script, likewise.                                                    *)
LEMMA SeederMoves ==
    ASSUME CompositeInv, UNCHANGED <<ledger, facts, publications, read, lease>>, defined' \in BOOLEAN,
           NEW t, Goto(Seeder, t),
           Seeding(t), Writing(t), t.pc \notin Inserting,
           t.pc = "lock_publications" => ~ ReaderHolds("facts")
    PROVE  CompositeInv'
<1>1. lease' \in [Materialization -> Worker \cup {None}]
  BY DEF CompositeInv, TypeOK
<1>2. \A q \in Process : Apart(t, task[q]) /\ Apart(task[q], t)
  BY DEF Apart, Inserting
<1>3. Seeder \in Process /\ task' = [task EXCEPT ![Seeder] = t]
  BY DEF Process, Goto
<1> QED
  BY <1>1, <1>2, <1>3, ProcessStep

LEMMA ClaimInv ==
    ASSUME CompositeInv, NEW w \in Worker, NEW m \in Materialization, Claim(w, m)
    PROVE  CompositeInv'
<1> DEFINE t == [pc |-> "load", of |-> m]
<1>1. Working(t) /\ Writing(t)
  BY DEF Claim, Working, Writing, Holder, Publisher, Writer, Inserting
<1>2. \A q \in Process : Apart(t, task[q]) /\ Apart(task[q], t)
  BY DEF Apart, Inserting
<1>3. lease' \in [Materialization -> Worker \cup {None}] /\ defined' \in BOOLEAN
  BY DEF CompositeInv, TypeOK, Claim, store
<1>4. w \in Process /\ w # Seeder
  BY CompositeAssumption DEF Process
<1>5. task' = [task EXCEPT ![w] = t] /\ UNCHANGED <<ledger, facts, publications, read>>
  BY DEF Claim, Goto, store
<1> HIDE DEF t
<1> QED
  BY <1>1, <1>2, <1>3, <1>4, <1>5, ProcessStep

(* Where an attempt resumes from a row.                                     *)
Resumes(m, row, t) ==
    \/ t = Idle
    \/ /\ t.pc \in {"pin", "resolve", "define"} /\ t.of = m /\ t.row = row
       /\ t.pc = "resolve" => row.outcomes \in Outcomes
       /\ t.pc = "define" => row.state = "PUBLISHING"

LEMMA ResumeShape ==
    ASSUME NEW m, NEW row \in Row
    PROVE  Resumes(m, row, Resume(m, row))
<1>1. CASE row.outcomes = None
  <2>1. Resume(m, row) = [pc |-> "pin", of |-> m, row |-> row]
    BY <1>1 DEF Resume
  <2> QED
    BY <2>1 DEF Resumes
<1>2. CASE row.outcomes # None /\ row.state = "WAITING"
  <2>1. Resume(m, row) = [pc |-> "resolve", of |-> m, row |-> row,
                          todo |-> {p \in Portfolio : row.outcomes[p] = "WAITING"}]
    BY <1>2 DEF Resume
  <2>2. row.outcomes \in Outcomes
    BY <1>2 DEF Row, Outcomes
  <2> QED
    BY <2>1, <2>2 DEF Resumes
<1>3. CASE row.outcomes # None /\ row.state = "PUBLISHING"
  <2>1. Resume(m, row) = [pc |-> "define", of |-> m, row |-> row]
    BY <1>3 DEF Resume
  <2> QED
    BY <1>3, <2>1 DEF Resumes
<1>4. CASE row.outcomes # None /\ row.state \notin {"WAITING", "PUBLISHING"}
  <2>1. Resume(m, row) = Idle
    BY <1>4 DEF Resume
  <2> QED
    BY <2>1 DEF Resumes
<1> QED
  BY <1>1, <1>2, <1>3, <1>4

LEMMA ResumesWorks ==
    ASSUME NEW m \in Materialization, NEW row, NEW t, Resumes(m, row, t)
    PROVE  /\ ledger[m] # None /\ Known(m, row) => Working(t)
           /\ ledger'[m] # None /\ Known(m, row)' => Working(t)'
           /\ Writing(t) /\ Writing(t)' /\ t.pc \notin Inserting
<1> USE DEF Inserting, Writer, Publisher, Holder
<1>1. CASE t = Idle
  BY <1>1 DEF Idle, Working, Writing
<1>2. CASE t # Idle
  BY <1>2 DEF Resumes, Working, Writing
<1> QED
  BY <1>1, <1>2

LEMMA CurrentIsKnown ==
    ASSUME LedgerInv, NEW m \in Materialization, ledger[m] # None
    PROVE  Known(m, ledger[m])
BY DEF LedgerInv, Known, Row

LEMMA LoadInv ==
    ASSUME CompositeInv, NEW w \in Worker, Load(w)
    PROVE  CompositeInv'
<1>1. PICK m : m = task[w].of
  OBVIOUS
<1>2. m \in Materialization /\ ledger[m] # None /\ LedgerInv /\ task[w].pc # "idle"
  BY <1>1 DEF CompositeInv, Load, Working
<1>3. PICK t : t = Resume(m, ledger[m])
  OBVIOUS
<1>4. Working(t) /\ Writing(t) /\ t.pc \notin Inserting
  <2>1. Known(m, ledger[m]) /\ ledger[m] \in Row
    BY <1>2, CurrentIsKnown DEF Known
  <2>2. Resumes(m, ledger[m], t)
    BY <1>3, <2>1, ResumeShape
  <2> QED
    BY <1>2, <2>1, <2>2, ResumesWorks
<1>5. FenceThen(w, t) \/ EndAttempt(w)
  BY <1>1, <1>3 DEF Load
<1>6. UNCHANGED <<ledger, facts, publications, read>> /\ defined' \in BOOLEAN
  BY DEF Load, store, CompositeInv, TypeOK
<1> QED
  BY <1>2, <1>4, <1>5, <1>6, WorkerMoves

(* A worker goes on to save a row that differs from its own in state and    *)
(* outcomes only.                                                           *)
SaveTask(w, to, then, todo) ==
    [pc |-> "save", of |-> task[w].of, row |-> task[w].row,
     to |-> [to EXCEPT !.revision = @ + 1], then |-> then, todo |-> todo]

LEMMA SaveTaskWorks ==
    ASSUME CompositeInv, NEW w \in Worker, task[w].pc \in Holder, NEW to \in Row,
           to.sequence = task[w].row.sequence, to.window = task[w].row.window,
           to.revision = task[w].row.revision,
           NEW then, NEW todo, then = "resolve" => to.outcomes \in Outcomes
    PROVE  /\ Working(SaveTask(w, to, then, todo)) /\ Writing(SaveTask(w, to, then, todo))
           /\ SaveTask(w, to, then, todo).pc \notin Inserting
<1> USE DEF Inserting, Writer, Publisher, Holder
<1>1. PICK s : s = [to EXCEPT !.revision = @ + 1]
  OBVIOUS
<1>2. /\ s \in Row /\ s.sequence = to.sequence /\ s.window = to.window
      /\ s.revision = to.revision + 1 /\ s.outcomes = to.outcomes
  BY <1>1 DEF Row
<1>3. PICK m, row : m = task[w].of /\ row = task[w].row
  OBVIOUS
<1>4. m \in Materialization /\ ledger[m] # None /\ Known(m, row)
  BY <1>3 DEF CompositeInv, Working
<1>5. PICK t : t = [pc |-> "save", of |-> m, row |-> row, to |-> s, then |-> then, todo |-> todo]
  OBVIOUS
<1>6. t = SaveTask(w, to, then, todo)
  BY <1>1, <1>3, <1>5 DEF SaveTask
<1>7. Working(t)
  BY <1>2, <1>3, <1>4, <1>5 DEF Working
<1> QED
  BY <1>5, <1>6, <1>7 DEF Writing

LEMMA SaveNextInv ==
    ASSUME CompositeInv, NEW w \in Worker, task[w].pc \in Holder, NEW to \in Row,
           to.sequence = task[w].row.sequence, to.window = task[w].row.window,
           to.revision = task[w].row.revision,
           NEW then, NEW todo, then = "resolve" => to.outcomes \in Outcomes,
           SaveNext(w, to, then, todo),
           UNCHANGED <<ledger, facts, publications, read>>, defined' \in BOOLEAN
    PROVE  CompositeInv'
<1>1. PICK t : t = SaveTask(w, to, then, todo)
  OBVIOUS
<1>2. Working(t) /\ Writing(t) /\ t.pc \notin Inserting
  BY <1>1, SaveTaskWorks
<1>3. FenceThen(w, t) \/ EndAttempt(w)
  BY <1>1 DEF SaveNext, SaveTask
<1>4. task[w].pc # "idle"
  BY DEF Holder, Publisher, Writer, Inserting
<1> QED
  BY <1>2, <1>3, <1>4, WorkerMoves

LEMMA RowUpdates ==
    ASSUME NEW row \in Row
    PROVE  /\ row.outcomes \in {None} \cup Outcomes
           /\ \A o \in Outcomes :
                 LET to == [row EXCEPT !.outcomes = o]
                 IN  /\ to \in Row /\ to.outcomes = o /\ to.revision = row.revision
                     /\ to.sequence = row.sequence /\ to.window = row.window
           /\ \A s \in {"WAITING", "PUBLISHING", "COMPLETE", "BLOCKED"} :
                 LET to == [row EXCEPT !.state = s]
                 IN  /\ to \in Row /\ to.outcomes = row.outcomes /\ to.revision = row.revision
                     /\ to.sequence = row.sequence /\ to.window = row.window /\ to.state = s
BY DEF Row, Outcomes

LEMMA KnownRow ==
    ASSUME CompositeInv, NEW w \in Worker, task[w].pc \in Holder
    PROVE  task[w].row \in Row
BY DEF CompositeInv, Working, Known

LEMMA PinSourceInv ==
    ASSUME CompositeInv, NEW w \in Worker, PinSource(w)
    PROVE  CompositeInv'
<1>1. UNCHANGED <<ledger, facts, publications, read>> /\ defined' \in BOOLEAN
  BY DEF PinSource, store, CompositeInv, TypeOK
<1>2. task[w].pc \in Holder /\ task[w].row \in Row
  BY KnownRow DEF PinSource, Holder
<1>3. ASSUME NEW o \in [Portfolio -> {"WAITING", "EXCLUDED", "BLOCKED"}],
             SaveNext(w, [task[w].row EXCEPT !.outcomes = o], "resume", {})
      PROVE  CompositeInv'
  <2>1. o \in Outcomes
    BY DEF Outcomes
  <2> QED
    BY <1>1, <1>2, <1>3, <2>1, RowUpdates, SaveNextInv
<1>4. ASSUME NEW s \in {"WAITING", "BLOCKED"},
             SaveNext(w, [task[w].row EXCEPT !.state = s], "raise", {})
      PROVE  CompositeInv'
  BY <1>1, <1>2, <1>4, RowUpdates, SaveNextInv
<1> QED
  BY <1>3, <1>4 DEF PinSource

LEMMA ResolveMemberInv ==
    ASSUME CompositeInv, NEW w \in Worker, NEW p \in Portfolio, ResolveMember(w, p)
    PROVE  CompositeInv'
<1>1. UNCHANGED <<ledger, facts, publications, read>> /\ defined' \in BOOLEAN
  BY DEF ResolveMember, store, CompositeInv, TypeOK
<1>2. task[w].pc \in Holder /\ task[w].row \in Row /\ task[w].row.outcomes \in Outcomes
  BY KnownRow DEF ResolveMember, Holder, CompositeInv, Working
<1>3. PICK o \in {"WAITING", "BLOCKED"} \cup Content :
          SaveNext(w, [task[w].row EXCEPT !.outcomes[p] = o], "resolve", task[w].todo \ {p})
  BY DEF ResolveMember
<1>4. PICK r : r = task[w].row
  OBVIOUS
<1>5. PICK n : n = [r.outcomes EXCEPT ![p] = o]
  OBVIOUS
<1>6. n \in Outcomes
  BY <1>2, <1>4, <1>5 DEF Outcomes
<1>7. [r EXCEPT !.outcomes[p] = o] = [r EXCEPT !.outcomes = n]
  BY <1>5
<1>8. PICK to : to = [r EXCEPT !.outcomes = n]
  OBVIOUS
<1>9. /\ to \in Row /\ to.outcomes = n /\ to.revision = r.revision
      /\ to.sequence = r.sequence /\ to.window = r.window
  <2>1. r \in Row
    BY <1>2, <1>4
  <2> QED
    BY <1>6, <1>8, <2>1 DEF Row, Outcomes
<1>10. SaveNext(w, to, "resolve", task[w].todo \ {p})
  BY <1>3, <1>4, <1>7, <1>8
<1> QED
  BY <1>1, <1>2, <1>4, <1>6, <1>9, <1>10, SaveNextInv

LEMMA ReleaseInv ==
    ASSUME CompositeInv, NEW w \in Worker, Release(w)
    PROVE  CompositeInv'
<1>1. UNCHANGED <<ledger, facts, publications, read>> /\ defined' \in BOOLEAN
  BY DEF Release, store, CompositeInv, TypeOK
<1>2. task[w].pc \in Holder /\ task[w].row \in Row
  BY KnownRow DEF Release, Holder
<1>3. PICK s : s = ReleaseState(task[w].row.outcomes)
  OBVIOUS
<1>4. s \in {"WAITING", "PUBLISHING", "COMPLETE", "BLOCKED"}
  BY <1>3 DEF ReleaseState
<1>5. SaveNext(w, [task[w].row EXCEPT !.state = s], "release", {})
  BY <1>3 DEF Release
<1> QED
  BY <1>1, <1>2, <1>4, <1>5, RowUpdates, SaveNextInv

-----------------------------------------------------------------------------
(* Saves: the ledger moves on.                                              *)

LEMMA SavedRow ==
    ASSUME LedgerInv, NEW m \in Materialization, ledger[m] # None, NEW row, Known(m, row),
           NEW to \in Row, to.sequence = row.sequence, to.window = row.window,
           to.revision = row.revision + 1, SaveAdmitted(m, row, to)
    PROVE  /\ row = ledger[m] /\ to # None /\ ledger[m].state # "COMPLETE" /\ Settled(to)
           /\ ledger[m].state = "PUBLISHING" =>
                 to.outcomes = ledger[m].outcomes /\ to.state \in {"PUBLISHING", "COMPLETE"}
           /\ to.state = "COMPLETE" => CompletedPublication(m, to)
<1>1. row = ledger[m] /\ Transition(row, to) /\ row \in Row /\ Settled(row)
  BY DEF SaveAdmitted, Known, LedgerInv
<1>2. to # None
  BY RowAssumption
<1>3. ledger[m].state # "COMPLETE"
  BY <1>1 DEF Transition
<1>4. Settled(to)
  BY <1>1 DEF Transition, Settled
<1>5. ASSUME row.state = "PUBLISHING"
      PROVE  to.outcomes = row.outcomes /\ to.state \in {"PUBLISHING", "COMPLETE"}
  <2>1. to.state \in {"PUBLISHING", "COMPLETE"}
    BY <1>1, <1>5 DEF Transition
  <2>2. to.outcomes # None /\ row.outcomes # None
    BY <1>1, <1>4, <1>5, <2>1 DEF Settled
  <2>3. to.outcomes \in Outcomes /\ row.outcomes \in Outcomes
    BY <1>1, <2>2, RowUpdates
  <2>4. \A p \in Portfolio : row.outcomes[p] # "WAITING"
    BY <1>1, <1>5, CompositeAssumption DEF Settled
  <2>5. \A p \in Portfolio : row.outcomes[p] = to.outcomes[p]
    BY <1>1, <2>2, <2>4 DEF Transition
  <2> QED
    BY <2>1, <2>3, <2>5 DEF Outcomes
<1> QED
  BY <1>1, <1>2, <1>3, <1>4, <1>5 DEF SaveAdmitted

(* Where the attempt goes from a row it has just stored.                    *)
LEMMA AfterSaveShape ==
    ASSUME NEW m, NEW t, t.to \in Row, t.then = "resolve" => t.to.outcomes \in Outcomes
    PROVE  Resumes(m, t.to, AfterSave(m, t))
<1>1. Resumes(m, t.to, Resume(m, t.to)) /\ Resumes(m, t.to, Idle)
  BY ResumeShape DEF Resumes
<1>2. CASE t.then = "resolve"
  <2>1. AfterSave(m, t) = [pc |-> "resolve", of |-> m, row |-> t.to, todo |-> t.todo]
    BY <1>2 DEF AfterSave
  <2> QED
    BY <1>2, <2>1 DEF Resumes
<1>3. CASE t.then # "resolve"
  <2>1. AfterSave(m, t) = Resume(m, t.to) \/ AfterSave(m, t) = Idle
    BY <1>3 DEF AfterSave
  <2> QED
    BY <1>1, <2>1
<1> QED
  BY <1>2, <1>3

LEMMA SaveInv ==
    ASSUME CompositeInv, NEW w \in Worker, Save(w)
    PROVE  CompositeInv'
<1>1. PICK m, row, to, old : old = task[w] /\ m = old.of /\ row = old.row /\ to = old.to
  OBVIOUS
<1>2. /\ old.pc = "save" /\ m \in Materialization /\ ledger[m] # None /\ LedgerInv /\ Known(m, row)
      /\ to \in Row /\ to.sequence = row.sequence /\ to.window = row.window
      /\ to.revision = row.revision + 1
      /\ old.then = "resolve" => to.outcomes \in Outcomes
  BY <1>1 DEF CompositeInv, Save, Working, Holder
<1>3. UNCHANGED <<facts, publications, read>> /\ defined' \in BOOLEAN
  BY DEF Save, store, CompositeInv, TypeOK
<1>4. w \in Process /\ w # Seeder
  BY CompositeAssumption DEF Process
<1>5. PICK t : t = AfterSave(m, old)
  OBVIOUS
<1>6. CASE ~ SaveAdmitted(m, row, to)
  <2>1. EndAttempt(w) /\ UNCHANGED ledger
    BY <1>1, <1>6 DEF Save
  <2> QED
    BY <1>1, <1>2, <1>3, <2>1, IdleTask, WorkerMoves DEF Inserting
<1>7. CASE SaveAdmitted(m, row, to)
  <2>1. ledger' = [ledger EXCEPT ![m] = to] /\ (FenceThen(w, t) \/ EndAttempt(w))
    BY <1>1, <1>5, <1>7 DEF Save
  <2>2. /\ row = ledger[m] /\ to # None /\ ledger[m].state # "COMPLETE" /\ Settled(to)
        /\ ledger[m].state = "PUBLISHING" =>
              to.outcomes = ledger[m].outcomes /\ to.state \in {"PUBLISHING", "COMPLETE"}
        /\ to.state = "COMPLETE" => CompletedPublication(m, to)
    BY <1>2, <1>7, SavedRow
  <2>3. DOMAIN ledger' = Materialization /\ ledger'[m] = to
        /\ \A n \in Materialization \ {m} : ledger'[n] = ledger[n]
    BY <1>2, <2>1 DEF LedgerInv
  <2>4. LedgerInv'
    BY <1>2, <2>2, <2>3 DEF LedgerInv, Settled
  <2>5. LedgerLater
    <3>1. \A n \in Materialization : ledger[n] # None => ledger[n].revision \in Nat
      BY <1>2 DEF LedgerInv, Row
    <3>2. row.revision \in Nat /\ to.revision = row.revision + 1 /\ row = ledger[m]
      BY <1>2, <2>2, <3>1
    <3> QED
      BY <1>2, <2>2, <2>3, <3>1, <3>2 DEF LedgerLater
  <2>6. StoreLater
    BY <1>3 DEF StoreLater
  <2>7. lease' \in [Materialization -> Worker \cup {None}]
        /\ \E u \in {t, Idle} : task' = [task EXCEPT ![w] = u]
    BY <1>1, <1>2, <2>1, FenceMoves
  <2>8. TypeOK'
    BY <1>3, <2>4, <2>7 DEF TypeOK, CompositeInv, LedgerInv
  <2>9. LineageInv'
    BY <1>2, <1>3, <2>2, <2>3 DEF LineageInv, CompositeInv
  <2>10. PublicationIsExact'
    BY <1>3 DEF CompositeInv, PublicationIsExact, FactsOf, Families
  <2>11. LedgerMatchesFacts'
    <3>1. \A s : PublicationsOf(s)' = PublicationsOf(s) /\ FactsOf(s)' = FactsOf(s)
      BY <1>3 DEF PublicationsOf, FactsOf
    <3>2. \A n, r : Agrees(n, r) => Agrees(n, r)'
      BY <1>3, <3>1, AgreementKept
    <3>3. \A n \in Materialization : ledger[n] # None => Agrees(n, ledger[n])
      BY Agreement DEF CompositeInv
    <3>4. Agrees(m, to)
      <4>1. ASSUME NEW q \in PublicationsOf(to.sequence), q.lineage = m
            PROVE  to.state \in {"PUBLISHING", "COMPLETE"} /\ FactsOf(q.sequence) = MemberFacts(m, to)
        <5>1. q \in PublicationsOf(ledger[m].sequence)
          BY <1>2, <2>2, <4>1
        <5>2. ledger[m].state \in {"PUBLISHING", "COMPLETE"}
              /\ FactsOf(q.sequence) = MemberFacts(m, ledger[m])
          BY <1>2, <3>3, <4>1, <5>1 DEF Agrees
        <5>3. to.outcomes = ledger[m].outcomes /\ to.state \in {"PUBLISHING", "COMPLETE"}
          BY <2>2, <5>2
        <5>4. MemberFacts(m, to) = MemberFacts(m, ledger[m])
          BY <1>2, <2>2, <5>3 DEF MemberFacts, Ready
        <5> QED
          BY <5>2, <5>3, <5>4
      <4> QED
        BY <2>2, <4>1 DEF Agrees
    <3>5. \A n \in Materialization : ledger'[n] # None => \A r : r = ledger'[n] => Agrees(n, r)
      BY <2>3, <3>3, <3>4
    <3> QED
      BY <3>2, <3>5, Agreement
  <2>12. PICK u \in {t, Idle} : task' = [task EXCEPT ![w] = u]
    BY <2>7
  <2>13. Working(t)' /\ Writing(t)' /\ t.pc \notin Inserting
    <3>1. Resumes(m, to, t)
      BY <1>1, <1>2, <1>5, AfterSaveShape
    <3>2. Known(m, to)'
      BY <1>2, <2>2, <2>3 DEF Known, Row, Settled
    <3> QED
      BY <1>2, <2>2, <2>3, <3>1, <3>2, ResumesWorks
  <2>14. Working(u)' /\ Writing(u)' /\ u.pc \notin Inserting
    <3>1. Working(Idle)' /\ Writing(Idle)' /\ Idle.pc \notin Inserting
      BY DEF Working, Writing, Idle, Inserting, Writer, Publisher, Holder
    <3> QED
      BY <2>12, <2>13, <3>1
  <2>15. DOMAIN task' = Process /\ task'[w] = u
         /\ \A q \in Process \ {w} : task'[q] = task[q]
    BY <1>4, <2>12 DEF CompositeInv
  <2>16. \A q \in Process : Apart(u, task[q]) /\ Apart(task[q], u)
    BY <2>14 DEF Apart, Inserting
  <2>17. \A q \in Process : Undisturbed(task[q])
    BY <1>3 DEF CompositeInv, Writing, Undisturbed, PublicationsOf
  <2>18. ~ Maintaining
    BY DEF Save, DefinitionExclusive
  <2> QED
    BY <1>3, <1>4, <2>4, <2>5, <2>6, <2>8, <2>9, <2>10, <2>11, <2>14, <2>15, <2>16, <2>17, <2>18, DataStep
<1> QED
  BY <1>6, <1>7

-----------------------------------------------------------------------------
(* Publication                                                              *)

(* What a process publishes.                                                *)
LEMMA ManifestFacts ==
    ASSUME CompositeInv, NEW p \in Process, task[p].pc \in Publisher
    PROVE  /\ Published(p) = Manifest(task[p])
           /\ p = Seeder <=> task[p].of = Seeder
           /\ task[p].row.sequence \in Sequence
           /\ \A f \in Manifest(task[p]) :
                 /\ f \in Fact /\ f.sequence = task[p].row.sequence
                 /\ f.version \in Materialization =>
                       /\ ledger[f.version] # None
                       /\ ledger[f.version].sequence = f.sequence /\ ledger[f.version].window = f.window
<1> USE DEF Publisher, Writer, Inserting
<1>1. CASE p = Seeder
  <2>1. task[p].of = Seeder /\ task[p].row = SeedRow
    BY <1>1 DEF CompositeInv, Seeding
  <2>2. SeedRow.sequence = 1 /\ 1 \in Sequence
    BY CompositeAssumption DEF SeedRow, Sequence
  <2>3. \A f \in SeedFacts : f \in Fact /\ f.sequence = 1 /\ f.version \notin Materialization
    BY <2>2, CompositeAssumption DEF SeedFacts, Fact
  <2> QED
    BY <1>1, <2>1, <2>2, <2>3 DEF Manifest, Published
<1>2. CASE p # Seeder
  <2>1. p \in Worker
    BY <1>2 DEF Process
  <2>2. PICK m, row : m = task[p].of /\ row = task[p].row
    OBVIOUS
  <2>3. m \in Materialization /\ ledger[m] # None /\ Known(m, row)
    BY <2>1, <2>2 DEF CompositeInv, Working, Holder
  <2>4. m # Seeder
    BY <2>3, CompositeAssumption
  <2>5. row.sequence \in Sequence /\ row.window \in Window
        /\ row.sequence = ledger[m].sequence /\ row.window = ledger[m].window
    BY <2>3 DEF Known, Row
  <2>6. \A f \in MemberFacts(m, row) :
            f \in Fact /\ f.sequence = row.sequence /\ f.window = row.window /\ f.version = m
    BY <2>3, <2>5 DEF MemberFacts, Ready, Fact
  <2>7. Manifest(task[p]) = MemberFacts(m, row) /\ Published(p) = MemberFacts(m, row)
    BY <1>2, <2>2, <2>4 DEF Manifest, Published
  <2> QED
    BY <1>2, <2>2, <2>3, <2>4, <2>5, <2>6, <2>7
<1> QED
  BY <1>1, <1>2

LEMMA AdvanceMoves ==
    ASSUME CompositeInv, NEW p \in Process, task[p].pc # "idle",
           NEW t, Advance(p, t) \/ Raise(p)
    PROVE  /\ lease' \in [Materialization -> Worker \cup {None}]
           /\ task' = [task EXCEPT ![p] = t] \/ task' = [task EXCEPT ![p] = Idle]
<1>1. CASE p = Seeder
  BY <1>1 DEF CompositeInv, TypeOK, Advance, Raise, Goto
<1>2. CASE p # Seeder
  BY <1>2, FenceMoves DEF Advance, Raise, Process
<1> QED
  BY <1>1, <1>2

(* A publisher that goes on with the same row.                              *)
LEMMA PublisherTask ==
    ASSUME CompositeInv, NEW p \in Process, task[p].pc \in Publisher,
           NEW t, t.pc \in Writer, t.of = task[p].of, t.row = task[p].row
    PROVE  /\ p # Seeder => Working(t)
           /\ p = Seeder => Seeding(t)
           /\ Manifest(t) = Manifest(task[p])
<1> USE DEF Holder, Publisher, Writer, Inserting
<1>1. p # Seeder => Working(t)
  BY DEF CompositeInv, Working, Process
<1>2. p = Seeder => Seeding(t)
  BY DEF CompositeInv, Seeding
<1> QED
  BY <1>1, <1>2 DEF Manifest

LEMMA PublisherStep ==
    ASSUME CompositeInv, NEW p \in Process, task[p].pc \in Publisher,
           UNCHANGED <<ledger, facts, publications, read>>, defined' \in BOOLEAN,
           NEW writes, writes \subseteq Manifest(task[p]), Manifest(task[p]) \ writes \subseteq facts,
           Advance(p, Publishing(p, "facts", writes)) \/ Raise(p)
    PROVE  CompositeInv'
<1>1. PICK t : t = Publishing(p, "facts", writes)
  OBVIOUS
<1>2. /\ t.pc = "facts" /\ t.of = task[p].of /\ t.row = task[p].row /\ t.writes = writes
      /\ t.pc \in Writer /\ t.pc \notin Inserting
  BY <1>1 DEF Publishing, Writer, Inserting
<1>3. (p # Seeder => Working(t)) /\ (p = Seeder => Seeding(t)) /\ Manifest(t) = Manifest(task[p])
  BY <1>2, PublisherTask
<1>4. Writing(t)
  BY <1>2, <1>3 DEF Writing, Inserting
<1>5. task[p].pc # "idle"
  BY DEF Publisher, Writer, Inserting
<1>6. lease' \in [Materialization -> Worker \cup {None}]
      /\ \E u \in {t, Idle} : task' = [task EXCEPT ![p] = u]
  BY <1>1, <1>5, AdvanceMoves
<1>7. PICK u \in {t, Idle} : task' = [task EXCEPT ![p] = u]
  BY <1>6
<1>8. /\ (p # Seeder => Working(u)) /\ (p = Seeder => Seeding(u)) /\ Writing(u)
      /\ u.pc \in {"facts", "idle"}
  BY <1>2, <1>3, <1>4, <1>7, IdleTask
<1>9. \A q \in Process : Apart(u, task[q]) /\ Apart(task[q], u)
  BY <1>8 DEF Apart, Inserting
<1> QED
  BY <1>6, <1>7, <1>8, <1>9, ProcessStep

LEMMA UpsertDefinitionInv ==
    ASSUME CompositeInv, NEW p \in Process, UpsertDefinition(p)
    PROVE  CompositeInv'
<1>1. task[p].pc \in Publisher
  BY DEF UpsertDefinition, Publisher
<1>2. UNCHANGED <<ledger, facts, publications, read>> /\ defined' \in BOOLEAN
  BY DEF UpsertDefinition
<1>3. Advance(p, Publishing(p, "facts", Manifest(task[p])))
  BY <1>1, ManifestFacts DEF UpsertDefinition
<1> QED
  BY <1>1, <1>2, <1>3, PublisherStep

(* A process enters the transaction of a fact or a publication.             *)
LEMMA EntersInsert ==
    ASSUME CompositeInv, NEW p \in Process, task[p].pc = "facts",
           UNCHANGED <<ledger, facts, publications, defined, lease, read>>,
           NEW t, t.pc \in Inserting, t.of = task[p].of, t.row = task[p].row, Goto(p, t), Writing(t),
           PublicationLock(p, t.row.sequence, t.pc = "insert_publication")
    PROVE  CompositeInv'
<1> USE DEF Publisher, Writer, Inserting
<1>1. (p # Seeder => Working(t)) /\ (p = Seeder => Seeding(t))
  BY PublisherTask
<1>2. lease' \in [Materialization -> Worker \cup {None}] /\ defined' \in BOOLEAN
  BY DEF CompositeInv, TypeOK
<1>3. \A q \in Process \ {p} : Apart(t, task[q]) /\ Apart(task[q], t)
  BY DEF PublicationLock, Apart
<1>4. task' = [task EXCEPT ![p] = t] /\ t.pc # "lock_publications"
  BY DEF Goto
<1> QED
  BY <1>1, <1>2, <1>3, <1>4, ProcessStep

LEMMA CheckFactInv ==
    ASSUME CompositeInv, NEW p \in Process, NEW f, CheckFact(p, f)
    PROVE  CompositeInv'
<1>1. task[p].pc = "facts" /\ task[p].pc \in Publisher /\ f \in task[p].writes
  BY DEF CheckFact, Publisher, Writer
<1>2. UNCHANGED <<ledger, facts, publications, defined, read>> /\ defined' \in BOOLEAN
  BY DEF CheckFact, store, CompositeInv, TypeOK
<1>3. task[p].writes \subseteq Manifest(task[p]) /\ Manifest(task[p]) \ task[p].writes \subseteq facts
  BY <1>1 DEF CompositeInv, Writing, Writer
<1>4. f.sequence = task[p].row.sequence
  BY <1>1, <1>3, ManifestFacts
<1>5. CASE Raise(p)
  BY <1>1, <1>2, <1>3, <1>5, PublisherStep
<1>6. CASE f \in Collision(f) /\ Advance(p, Publishing(p, "facts", task[p].writes \ {f}))
  <2>1. f \in facts
    BY <1>6 DEF Collision
  <2> QED
    BY <1>1, <1>2, <1>3, <1>6, <2>1, PublisherStep
<1>7. CASE /\ PublicationsOf(f.sequence) = {}
           /\ Goto(p, [pc |-> "insert_fact", of |-> task[p].of, row |-> task[p].row,
                       writes |-> task[p].writes, fact |-> f])
           /\ UNCHANGED lease
  <2>1. PICK t : t = [pc |-> "insert_fact", of |-> task[p].of, row |-> task[p].row,
                      writes |-> task[p].writes, fact |-> f]
    OBVIOUS
  <2>2. /\ t.pc = "insert_fact" /\ t.of = task[p].of /\ t.row = task[p].row
        /\ t.writes = task[p].writes /\ t.fact = f /\ t.pc \in Writer /\ t.pc \in Inserting
    BY <2>1 DEF Writer, Inserting
  <2>3. Writing(t)
    <3>1. Manifest(t) = Manifest(task[p])
      BY <1>1, <2>2, PublisherTask
    <3> QED
      BY <1>1, <1>3, <1>4, <1>7, <2>2, <3>1 DEF Writing
  <2>4. PublicationLock(p, t.row.sequence, t.pc = "insert_publication")
    BY <1>4, <2>2 DEF CheckFact, PublicationLock
  <2> QED
    BY <1>1, <1>2, <1>7, <2>1, <2>2, <2>3, <2>4, EntersInsert
<1> QED
  BY <1>5, <1>6, <1>7 DEF CheckFact

LEMMA AfterPublicationMoves ==
    ASSUME CompositeInv, NEW p \in Process, task[p].pc \in Publisher, AfterPublication(p)
    PROVE  /\ lease' \in [Materialization -> Worker \cup {None}]
           /\ \E t : /\ task' = [task EXCEPT ![p] = t]
                     /\ p # Seeder => Working(t)
                     /\ p = Seeder => Seeding(t)
                     /\ t.pc \in {"idle", "save"}
<1>1. task[p].pc # "idle" /\ task[p].pc \in Holder
  BY DEF Holder, Publisher, Writer, Inserting
<1>2. CASE p = Seeder
  BY <1>1, <1>2, IdleTask, AdvanceMoves DEF AfterPublication
<1>3. CASE p # Seeder
  <2>1. p \in Worker
    BY <1>3 DEF Process
  <2>2. PICK to : to = [task[p].row EXCEPT !.state = "COMPLETE"]
    OBVIOUS
  <2>3. /\ to \in Row /\ to.sequence = task[p].row.sequence /\ to.window = task[p].row.window
        /\ to.revision = task[p].row.revision
    BY <1>1, <2>1, <2>2, KnownRow, RowUpdates
  <2>4. PICK t : t = SaveTask(p, to, "finish", {})
    OBVIOUS
  <2>5. Working(t)
    BY <1>1, <2>1, <2>3, <2>4, SaveTaskWorks
  <2>6. t.pc = "save" /\ FenceThen(p, t)
    BY <1>3, <2>2, <2>4 DEF AfterPublication, SaveNext, SaveTask
  <2> QED
    BY <1>1, <1>3, <2>1, <2>5, <2>6, FenceMoves, IdleTask
<1> QED
  BY <1>2, <1>3

LEMMA CheckPublicationInv ==
    ASSUME CompositeInv, NEW p \in Process, CheckPublication(p)
    PROVE  CompositeInv'
<1>1. task[p].pc = "facts" /\ task[p].pc \in Publisher /\ task[p].writes = {}
  BY DEF CheckPublication, Publisher, Writer
<1>2. UNCHANGED <<ledger, facts, publications, defined, read>> /\ defined' \in BOOLEAN
  BY DEF CheckPublication, store, CompositeInv, TypeOK
<1>3. Manifest(task[p]) \subseteq facts /\ Published(p) = Manifest(task[p])
  BY <1>1, ManifestFacts DEF CompositeInv, Writing, Writer
<1>4. CASE Raise(p)
  BY <1>1, <1>2, <1>3, <1>4, PublisherStep
<1>5. CASE AfterPublication(p)
  <2>1. lease' \in [Materialization -> Worker \cup {None}]
    BY <1>1, <1>5, AfterPublicationMoves
  <2>2. PICK t : /\ task' = [task EXCEPT ![p] = t]
                 /\ p # Seeder => Working(t)
                 /\ p = Seeder => Seeding(t)
                 /\ t.pc \in {"idle", "save"}
    BY <1>1, <1>5, AfterPublicationMoves
  <2>3. Writing(t) /\ \A q \in Process : Apart(t, task[q]) /\ Apart(task[q], t)
    BY <2>2 DEF Writing, Apart, Writer, Inserting
  <2> QED
    BY <1>2, <2>1, <2>2, <2>3, ProcessStep
<1>6. CASE /\ Families(FactsOf(task[p].row.sequence)) = Families(Published(p))
           /\ Goto(p, Publishing(p, "insert_publication", {}))
           /\ UNCHANGED lease
  <2>1. PICK t : t = Publishing(p, "insert_publication", {})
    OBVIOUS
  <2>2. /\ t.pc = "insert_publication" /\ t.of = task[p].of /\ t.row = task[p].row
        /\ t.writes = {} /\ t.pc \in Writer /\ t.pc \in Inserting
    BY <2>1 DEF Publishing, Writer, Inserting
  <2>3. Writing(t)
    <3>1. Manifest(t) = Manifest(task[p])
      BY <1>1, <2>2, PublisherTask
    <3> QED
      BY <1>3, <1>6, <2>2, <3>1 DEF Writing
  <2>4. PublicationLock(p, t.row.sequence, t.pc = "insert_publication")
    BY <2>2 DEF CheckPublication, PublicationLock
  <2> QED
    BY <1>1, <1>2, <1>6, <2>1, <2>2, <2>3, <2>4, EntersInsert
<1> QED
  BY <1>4, <1>5, <1>6 DEF CheckPublication

LEMMA CrashInv ==
    ASSUME CompositeInv, NEW p \in Process, Crash(p)
    PROVE  CompositeInv'
<1>1. \A q \in Process : Apart(Idle, task[q]) /\ Apart(task[q], Idle)
  BY IdleTask
<1>2. UNCHANGED <<ledger, facts, publications, read>> /\ defined' \in BOOLEAN
      /\ lease' \in [Materialization -> Worker \cup {None}] /\ task' = [task EXCEPT ![p] = Idle]
  BY DEF Crash, store, CompositeInv, TypeOK, Goto
<1> QED
  BY <1>1, <1>2, IdleTask, ProcessStep

-----------------------------------------------------------------------------
(* The commits                                                              *)

LEMMA LedgerStays ==
    ASSUME CompositeInv, UNCHANGED ledger
    PROVE  LedgerInv' /\ LedgerLater
<1>1. \A m \in Materialization : ledger[m] # None => ledger[m].revision \in Nat
  BY DEF CompositeInv, LedgerInv, Row
<1>2. LedgerInv'
  BY DEF CompositeInv, LedgerInv, Settled
<1> QED
  BY <1>1, <1>2 DEF LedgerLater

LEMMA CommitFactInv ==
    ASSUME CompositeInv, NEW p \in Process, CommitFact(p)
    PROVE  CompositeInv'
<1> USE DEF Publisher, Writer, Inserting
<1>1. PICK f, s : f = task[p].fact /\ s = task[p].row.sequence
  OBVIOUS
<1>2. /\ task[p].pc = "insert_fact" /\ f \in task[p].writes
      /\ task[p].writes \subseteq Manifest(task[p]) /\ Manifest(task[p]) \ task[p].writes \subseteq facts
      /\ PublicationsOf(s) = {}
  BY <1>1 DEF CommitFact, CompositeInv, Writing
<1>3. /\ f \in Fact /\ f.sequence = s
      /\ f.version \in Materialization =>
            /\ ledger[f.version] # None
            /\ ledger[f.version].sequence = f.sequence /\ ledger[f.version].window = f.window
  BY <1>1, <1>2, ManifestFacts
<1>4. UNCHANGED <<ledger, publications, defined, read>> /\ defined' \in BOOLEAN
  BY DEF CommitFact, CompositeInv, TypeOK
<1>5. CASE Collision(f) # {}
  <2>1. facts' = facts
    BY <1>1, <1>5 DEF CommitFact
  <2>2. CASE Collision(f) \subseteq {f}
    <3>1. f \in facts
      BY <1>5, <2>2 DEF Collision
    <3>2. Advance(p, Publishing(p, "facts", task[p].writes \ {f}))
      BY <1>1, <2>2 DEF CommitFact
    <3> QED
      BY <1>2, <1>4, <2>1, <3>1, <3>2, PublisherStep
  <2>3. CASE ~ (Collision(f) \subseteq {f})
    <3>1. Raise(p)
      BY <1>1, <2>3 DEF CommitFact
    <3> QED
      BY <1>2, <1>4, <2>1, <3>1, PublisherStep
  <2> QED
    BY <2>2, <2>3
<1>6. CASE Collision(f) = {}
  <2>1. facts' = facts \cup {f} /\ Advance(p, Publishing(p, "facts", task[p].writes \ {f}))
    BY <1>1, <1>6 DEF CommitFact
  <2>2. PICK t : t = Publishing(p, "facts", task[p].writes \ {f})
    OBVIOUS
  <2>3. /\ t.pc = "facts" /\ t.of = task[p].of /\ t.row = task[p].row
        /\ t.writes = task[p].writes \ {f}
    BY <2>2 DEF Publishing
  <2>4. (p # Seeder => Working(t)) /\ (p = Seeder => Seeding(t)) /\ Manifest(t) = Manifest(task[p])
    BY <1>2, <2>3, PublisherTask
  <2>5. lease' \in [Materialization -> Worker \cup {None}]
        /\ \E u \in {t, Idle} : task' = [task EXCEPT ![p] = u]
    BY <1>2, <2>1, <2>2, AdvanceMoves
  <2>6. PICK u \in {t, Idle} : task' = [task EXCEPT ![p] = u]
    BY <2>5
  <2>7. LedgerInv' /\ LedgerLater
    BY <1>4, LedgerStays
  <2>8. /\ p # Seeder => Working(u)'
        /\ p = Seeder => Seeding(u)'
    <3>1. (p # Seeder => Working(u)) /\ (p = Seeder => Seeding(u))
      BY <2>4, <2>6, IdleTask
    <3> QED
      BY <1>4, <2>7, <3>1, WorkingKept DEF CompositeInv, Seeding, SeedRow
  <2>9. Writing(u)'
    <3>1. CASE u = t
      <4>1. Manifest(t)' = Manifest(t)
        BY DEF Manifest, SeedFacts, MemberFacts, Ready
      <4>2. Manifest(t) \ t.writes \subseteq facts' /\ t.writes \subseteq Manifest(t)
        BY <1>2, <2>1, <2>3, <2>4
      <4> QED
        BY <2>3, <3>1, <4>1, <4>2 DEF Writing
    <3>2. CASE u = Idle
      BY <3>2 DEF Writing, Idle
    <3> QED
      BY <2>6, <3>1, <3>2
  <2>10. u.pc \in {"facts", "idle"}
    BY <2>3, <2>6 DEF Idle
  <2>11. DOMAIN task' = Process /\ task'[p] = u /\ \A q \in Process \ {p} : task'[q] = task[q]
    BY <2>6 DEF CompositeInv
  <2>12. \A q \in Process : Apart(u, task[q]) /\ Apart(task[q], u)
    BY <2>10 DEF Apart
  <2>13. \A q \in Process \ {p} : Undisturbed(task[q])
    <3> SUFFICES ASSUME NEW q \in Process \ {p}
                 PROVE  Undisturbed(task[q])
      OBVIOUS
    <3>1. Apart(task[q], task[p])
      BY DEF CompositeInv, Locks
    <3>2. task[q].pc = "insert_publication" => f.sequence # task[q].row.sequence
      BY <1>1, <1>2, <1>3, <3>1 DEF Apart
    <3>3. task[q].pc = "insert_fact" => PublicationsOf(task[q].row.sequence) = {}
      BY DEF CompositeInv, Writing
    <3> QED
      BY <1>4, <2>1, <3>2, <3>3 DEF Undisturbed, PublicationsOf
  <2>14. \A q \in publications : q.sequence # s
    BY <1>2 DEF PublicationsOf
  <2>15. StoreLater
    BY <1>3, <1>4, <2>1, <2>14 DEF StoreLater
  <2>16. TypeOK'
    <3>1. \A g \in facts : /\ <<g.portfolio, g.window>> = <<f.portfolio, f.window>>
                           => ~ (g.sequence = f.sequence \/ g.version = f.version)
      BY <1>6 DEF Collision
    <3>2. \A g \in facts : (g.portfolio = f.portfolio /\ g.window = f.window)
                           => g.sequence # f.sequence /\ g.version # f.version
      BY <3>1
    <3> QED
      BY <1>3, <1>4, <2>1, <2>5, <3>2 DEF CompositeInv, TypeOK
  <2>17. LineageInv'
    BY <1>3, <1>4, <2>1 DEF CompositeInv, LineageInv
  <2>18. \A x : x # s => FactsOf(x)' = FactsOf(x)
    BY <1>3, <2>1 DEF FactsOf
  <2>19. PublicationIsExact'
    BY <1>4, <2>14, <2>18 DEF CompositeInv, PublicationIsExact, Families
  <2>20. LedgerMatchesFacts'
    <3>1. \A x : PublicationsOf(x)' = PublicationsOf(x)
      BY <1>4 DEF PublicationsOf
    <3>2. \A m, row : Agrees(m, row) => Agrees(m, row)'
      BY <1>2, <1>4, <2>18, <3>1, AgreementKept
    <3> QED
      BY <1>4, <3>2, Agreement DEF CompositeInv
  <2> QED
    BY <1>4, <2>7, <2>8, <2>9, <2>10, <2>11, <2>12, <2>13, <2>15, <2>16, <2>17, <2>19, <2>20, DataStep
<1> QED
  BY <1>5, <1>6

(* Under the lock the stored facts are the manifest itself: the families    *)
(* agree, and a family has one fact in a sequence.                          *)
LEMMA ManifestStored ==
    ASSUME CompositeInv, NEW p \in Process, task[p].pc = "insert_publication"
    PROVE  FactsOf(task[p].row.sequence) = Manifest(task[p])
<1>1. PICK s, M : s = task[p].row.sequence /\ M = Manifest(task[p])
  OBVIOUS
<1>2. M \subseteq facts /\ Families(FactsOf(s)) = Families(M)
  BY <1>1 DEF CompositeInv, Writing, Writer, Inserting
<1>3. \A f \in M : f.sequence = s
  BY <1>1, ManifestFacts DEF Publisher, Writer, Inserting
<1>4. M \subseteq FactsOf(s)
  BY <1>2, <1>3 DEF FactsOf
<1>5. ASSUME NEW f \in FactsOf(s)
      PROVE  f \in M
  <2>1. <<f.portfolio, f.window>> \in Families(M)
    BY <1>2 DEF Families
  <2>2. PICK g \in M : <<f.portfolio, f.window>> = <<g.portfolio, g.window>>
    BY <2>1 DEF Families
  <2>3. f \in facts /\ g \in facts /\ f.sequence = g.sequence
    BY <1>2, <1>3 DEF FactsOf
  <2>4. f = g
    BY <2>2, <2>3 DEF CompositeInv, TypeOK
  <2> QED
    BY <2>4
<1> QED
  BY <1>1, <1>4, <1>5

(* The publication is well formed and of the publisher's materialization.   *)
LEMMA PublicationRowType ==
    ASSUME CompositeInv, NEW p \in Process, task[p].pc = "insert_publication"
    PROVE  /\ PublicationRow(p) \in Publication
           /\ PublicationRow(p).sequence = task[p].row.sequence
           /\ PublicationRow(p).families = Families(Manifest(task[p]))
           /\ PublicationRow(p).lineage = task[p].of
           /\ PublicationRow(p).window = task[p].row.window
           /\ task[p].of \in Materialization =>
                 /\ ledger[task[p].of] # None
                 /\ ledger[task[p].of].sequence = task[p].row.sequence
                 /\ ledger[task[p].of].window = task[p].row.window
                 /\ ledger[task[p].of].state \in {"PUBLISHING", "COMPLETE"}
                 /\ Manifest(task[p]) = MemberFacts(task[p].of, ledger[task[p].of])
<1> USE DEF Publisher, Writer, Inserting, Holder
<1>1. /\ Published(p) = Manifest(task[p]) /\ task[p].row.sequence \in Sequence
      /\ \A f \in Manifest(task[p]) : f \in Fact
      /\ p = Seeder <=> task[p].of = Seeder
  BY ManifestFacts
<1>2. Families(Manifest(task[p])) \in SUBSET (Portfolio \X Window)
  BY <1>1 DEF Families, Fact
<1>3. CASE p = Seeder
  <2>1. task[p].of = Seeder /\ task[p].row = SeedRow
    BY <1>3 DEF CompositeInv, Seeding
  <2>2. SeedRow.window \in SUBSET UNION Window
    BY CompositeAssumption DEF SeedRow
  <2>3. Seeder \notin Materialization
    BY CompositeAssumption
  <2> QED
    BY <1>1, <1>2, <2>1, <2>2, <2>3 DEF PublicationRow, Publication
<1>4. CASE p # Seeder
  <2>1. PICK m, row : m = task[p].of /\ row = task[p].row
    OBVIOUS
  <2>2. m \in Materialization /\ ledger[m] # None /\ Known(m, row) /\ row.state = "PUBLISHING"
    BY <1>4, <2>1 DEF CompositeInv, Working, Process
  <2>3. row.window \in SUBSET UNION Window
    BY <2>2 DEF Known, Row
  <2>4. MemberFacts(m, row) = MemberFacts(m, ledger[m])
    BY <2>2 DEF Known, MemberFacts, Ready
  <2>5. m # Seeder
    BY <2>2, CompositeAssumption
  <2>6. Manifest(task[p]) = MemberFacts(m, row)
    BY <2>1, <2>5 DEF Manifest
  <2>7. /\ ledger[m].sequence = row.sequence /\ ledger[m].window = row.window
        /\ ledger[m].state \in {"PUBLISHING", "COMPLETE"}
    BY <2>2 DEF Known
  <2> QED
    BY <1>1, <1>2, <2>1, <2>2, <2>3, <2>4, <2>6, <2>7 DEF PublicationRow, Publication
<1> QED
  BY <1>3, <1>4

LEMMA CommitPublicationInv ==
    ASSUME CompositeInv, NEW p \in Process, CommitPublication(p)
    PROVE  CompositeInv'
<1> USE DEF Publisher, Writer, Inserting
<1>1. PICK s, new : s = task[p].row.sequence /\ new = PublicationRow(p)
  OBVIOUS
<1>2. task[p].pc = "insert_publication"
  BY DEF CommitPublication
<1>3. UNCHANGED <<ledger, facts, defined, read>> /\ defined' \in BOOLEAN
  BY DEF CommitPublication, CompositeInv, TypeOK
<1>4. CASE PublicationsOf(s) # {}
  <2>1. Raise(p) /\ UNCHANGED publications
    BY <1>1, <1>4 DEF CommitPublication
  <2>2. task[p].writes \subseteq Manifest(task[p]) /\ Manifest(task[p]) \ task[p].writes \subseteq facts
    BY <1>2 DEF CompositeInv, Writing
  <2> QED
    BY <1>2, <1>3, <2>1, <2>2, PublisherStep
<1>5. CASE PublicationsOf(s) = {}
  <2>1. publications' = publications \cup {new} /\ AfterPublication(p)
    BY <1>1, <1>5 DEF CommitPublication
  <2>2. lease' \in [Materialization -> Worker \cup {None}]
    BY <1>2, <2>1, AfterPublicationMoves
  <2>3. PICK t : /\ task' = [task EXCEPT ![p] = t]
                 /\ p # Seeder => Working(t)
                 /\ p = Seeder => Seeding(t)
                 /\ t.pc \in {"idle", "save"}
    BY <1>2, <2>1, AfterPublicationMoves
  <2>4. LedgerInv' /\ LedgerLater
    BY <1>3, LedgerStays
  <2>5. (p # Seeder => Working(t)') /\ (p = Seeder => Seeding(t)')
    BY <1>3, <2>3, <2>4, WorkingKept DEF CompositeInv, Seeding, SeedRow
  <2>6. Writing(t)' /\ \A q \in Process : Apart(t, task[q]) /\ Apart(task[q], t)
    BY <2>3 DEF Writing, Apart
  <2>7. DOMAIN task' = Process /\ task'[p] = t /\ \A q \in Process \ {p} : task'[q] = task[q]
    BY <2>3 DEF CompositeInv
  <2>8. \A q \in publications : q.sequence # s
    BY <1>5 DEF PublicationsOf
  <2>9. /\ new \in Publication /\ new.sequence = s /\ new.lineage = task[p].of
        /\ new.families = Families(Manifest(task[p])) /\ new.window = task[p].row.window
        /\ new.lineage \in Materialization =>
              /\ ledger[new.lineage] # None
              /\ ledger[new.lineage].sequence = s /\ ledger[new.lineage].window = new.window
              /\ ledger[new.lineage].state \in {"PUBLISHING", "COMPLETE"}
              /\ Manifest(task[p]) = MemberFacts(new.lineage, ledger[new.lineage])
    BY <1>1, <1>2, PublicationRowType
  <2>10. FactsOf(s) = Manifest(task[p])
    BY <1>1, <1>2, ManifestStored
  <2>11. \A q \in Process \ {p} : Undisturbed(task[q])
    <3> SUFFICES ASSUME NEW q \in Process \ {p}
                 PROVE  Undisturbed(task[q])
      OBVIOUS
    <3>1. Apart(task[p], task[q])
      BY DEF CompositeInv, Locks
    <3>2. task[q].pc = "insert_fact" => s # task[q].row.sequence
      BY <1>1, <1>2, <3>1 DEF Apart
    <3>3. task[q].pc = "insert_fact" => PublicationsOf(task[q].row.sequence) = {}
      BY DEF CompositeInv, Writing
    <3> QED
      BY <1>3, <2>1, <2>9, <3>2, <3>3 DEF Undisturbed, PublicationsOf
  <2>12. StoreLater
    BY <1>3, <2>1 DEF StoreLater
  <2>13. TypeOK'
    BY <1>3, <2>1, <2>2, <2>8, <2>9 DEF CompositeInv, TypeOK
  <2>14. LineageInv'
    BY <1>3, <2>1, <2>9 DEF CompositeInv, LineageInv
  <2>15. \A x : FactsOf(x)' = FactsOf(x)
    BY <1>3 DEF FactsOf
  <2>16. PublicationIsExact'
    BY <2>1, <2>9, <2>10, <2>15 DEF CompositeInv, PublicationIsExact, Families
  <2>17. LedgerMatchesFacts'
    <3> SUFFICES ASSUME NEW m \in Materialization, ledger[m] # None
                 PROVE  \A row : row = ledger[m] => Agrees(m, row)'
      BY <1>3, Agreement
    <3>1. PICK row : row = ledger[m]
      OBVIOUS
    <3>2. Agrees(m, row)
      BY <3>1, Agreement DEF CompositeInv
    <3>3. CASE row.sequence # s
      <4>1. PublicationsOf(row.sequence)' = PublicationsOf(row.sequence)
        BY <2>1, <2>9, <3>3 DEF PublicationsOf
      <4> QED
        BY <2>1, <2>15, <3>1, <3>2, <4>1, AgreementKept
    <3>4. CASE row.sequence = s
      <4>1. PublicationsOf(s)' = {new}
        BY <2>1, <2>8, <2>9 DEF PublicationsOf
      <4>2. row.state # "COMPLETE"
        BY <1>5, <3>2, <3>4 DEF Agrees, CompletedPublication
      <4>3. MemberFacts(m, row)' = MemberFacts(m, row)
        BY DEF MemberFacts, Ready
      <4>4. new.lineage = m => row.state \in {"PUBLISHING", "COMPLETE"} /\ FactsOf(s) = MemberFacts(m, row)
        BY <2>9, <2>10, <3>1
      <4>5. FactsOf(new.sequence)' = FactsOf(s)
        BY <2>9, <2>15
      <4>6. Agrees(m, row)'
        BY <3>4, <4>1, <4>2, <4>3, <4>4, <4>5 DEF Agrees
      <4> QED
        BY <3>1, <4>6
    <3> QED
      BY <3>3, <3>4
  <2> QED
    BY <1>3, <2>3, <2>4, <2>5, <2>6, <2>7, <2>11, <2>12, <2>13, <2>14, <2>16, <2>17, DataStep
<1> QED
  BY <1>4, <1>5

-----------------------------------------------------------------------------
(* Admission and maintenance                                                *)

LEMMA SubmitInv ==
    ASSUME CompositeInv, NEW m \in Materialization, NEW s \in Sequence, NEW w \in CommandWindow,
           Submit(m, s, w)
    PROVE  CompositeInv'
<1>1. PICK row : row = [sequence |-> s, window |-> w, state |-> "WAITING", revision |-> 0, outcomes |-> None]
  OBVIOUS
<1>2. row \in Row /\ row # None /\ row.sequence = s /\ row.state = "WAITING"
  BY <1>1, CompositeAssumption, RowAssumption DEF Row
<1>3. UNCHANGED <<facts, publications, defined, lease, task, read>>
  BY DEF Submit, store
<1>4. /\ ledger[m] = None /\ DOMAIN ledger' = Materialization /\ ledger'[m] = row
      /\ \A n \in Materialization \ {m} : ledger'[n] = ledger[n]
  BY <1>1 DEF Submit, CompositeInv, LedgerInv
<1>5. LedgerInv'
  BY <1>2, <1>4 DEF CompositeInv, LedgerInv, Settled
<1>6. LedgerLater
  <2>1. \A n \in Materialization : ledger[n] # None => ledger[n].revision \in Nat
    BY DEF CompositeInv, LedgerInv, Row
  <2> QED
    BY <1>4, <2>1 DEF LedgerLater
<1>7. StoreLater
  BY <1>3 DEF StoreLater
<1>8. TypeOK'
  BY <1>3, <1>5 DEF CompositeInv, TypeOK, LedgerInv
<1>9. LineageInv'
  BY <1>3, <1>4 DEF CompositeInv, LineageInv
<1>10. PublicationIsExact'
  BY <1>3 DEF CompositeInv, PublicationIsExact, FactsOf, Families
<1>11. LedgerMatchesFacts'
  <2>1. \A x : PublicationsOf(x)' = PublicationsOf(x) /\ FactsOf(x)' = FactsOf(x)
    BY <1>3 DEF PublicationsOf, FactsOf
  <2>2. \A n, r : Agrees(n, r) => Agrees(n, r)'
    BY <1>3, <2>1, AgreementKept
  <2>3. PublicationsOf(s) = {}
    <3>1. \A q \in publications : q.sequence < s
      BY DEF Submit, NewChronology
    <3> QED
      BY <3>1 DEF PublicationsOf, Sequence
  <2>4. Agrees(m, row)
    BY <1>2, <2>3 DEF Agrees
  <2>5. \A n \in Materialization : ledger'[n] # None => \A r : r = ledger'[n] => Agrees(n, r)
    BY <1>4, <2>4, Agreement DEF CompositeInv
  <2> QED
    BY <2>2, <2>5, Agreement
<1>12. PICK t : t = task[Seeder]
  OBVIOUS
<1>13. Seeding(t)' /\ ~ Maintaining
  BY <1>12 DEF Submit, DefinitionExclusive, Maintaining, CompositeInv, Seeding
<1>14. \A q \in Process : Undisturbed(task[q])
  BY <1>3 DEF CompositeInv, Writing, Undisturbed, PublicationsOf
<1>15. Writing(t)'
  <2>1. Seeder \in Process
    BY DEF Process
  <2>2. Writing(t) /\ Undisturbed(t) /\ facts \subseteq facts'
    BY <1>3, <1>12, <1>14, <2>1 DEF CompositeInv
  <2> QED
    BY <2>2, WritingKept
<1>16. \A q \in Process \ {Seeder} : Apart(t, task[q]) /\ Apart(task[q], t)
  BY <1>12 DEF CompositeInv, Locks, Process
<1>17. Seeder \in Process /\ DOMAIN task' = Process /\ task'[Seeder] = t /\ t.pc # "lock_publications"
  BY <1>3, <1>12, <1>13 DEF CompositeInv, Process, Maintaining
<1> QED
  BY <1>3, <1>5, <1>6, <1>7, <1>8, <1>9, <1>10, <1>11, <1>13, <1>14, <1>15, <1>16, <1>17, DataStep

LEMMA MaintenanceMoves ==
    ASSUME CompositeInv, BeginMaintenance \/ LockFacts
    PROVE  CompositeInv'
<1> USE DEF Publisher, Writer, Inserting
<1>1. UNCHANGED <<ledger, facts, publications, read, lease>> /\ defined' \in BOOLEAN
  BY DEF BeginMaintenance, LockFacts, store, CompositeInv, TypeOK
<1>2. \A m \in Materialization : ledger[m] = None
  BY DEF BeginMaintenance, LockFacts, MaintenanceSafe, CompositeInv, Seeding
<1>3. ASSUME NEW pc \in {"lock_facts", "lock_publications"}, Goto(Seeder, SeedTask(pc)),
             pc = "lock_publications" => ~ ReaderHolds("facts")
      PROVE  CompositeInv'
  <2>1. PICK t : t = SeedTask(pc)
    OBVIOUS
  <2>2. t.pc = pc /\ t.of = Seeder /\ t.row = SeedRow
    BY <2>1 DEF SeedTask
  <2>3. Seeding(t) /\ Writing(t)
    BY <1>2, <2>2 DEF Seeding, Writing
  <2> QED
    BY <1>1, <1>3, <2>1, <2>2, <2>3, SeederMoves
<1> QED
  BY <1>3 DEF BeginMaintenance, LockFacts

(* Maintenance clears the store only while no attempt, no transaction and   *)
(* no latest read can notice.                                               *)
LEMMA ClearInv ==
    ASSUME CompositeInv, Clear
    PROVE  CompositeInv'
<1> USE DEF Publisher, Writer, Inserting, Holder
<1>1. PICK t : t = SeedTask("define")
  OBVIOUS
<1>2. t.pc = "define" /\ t.of = Seeder /\ t.row = SeedRow
  BY <1>1 DEF SeedTask
<1>3. /\ facts' = {} /\ publications' = {} /\ defined' = FALSE /\ UNCHANGED <<ledger, lease, read>>
      /\ DOMAIN task' = Process /\ task'[Seeder] = t
      /\ \A q \in Process \ {Seeder} : task'[q] = task[q]
  BY <1>1 DEF Clear, Goto, CompositeInv, Process
<1>4. \A m \in Materialization : ledger[m] = None
  BY DEF Clear, CompositeInv, Seeding
<1>5. \A w \in Worker : task[w].pc = "idle" /\ task'[w] = task[w]
  BY <1>3, <1>4, CompositeAssumption DEF CompositeInv, Working, Process
<1>6. TypeOK'
  BY <1>3, <1>4 DEF CompositeInv, TypeOK
<1>7. LedgerInv' /\ LineageInv' /\ PublicationIsExact' /\ LedgerMatchesFacts'
  BY <1>3, <1>4 DEF CompositeInv, LedgerInv, LineageInv, PublicationIsExact, LedgerMatchesFacts
<1>8. \A w \in Worker : Working(task[w])'
  BY <1>5 DEF Working
<1>9. Seeding(task[Seeder])'
  BY <1>2, <1>3 DEF Seeding
<1>10. \A p \in Process : Writing(task[p])'
  BY <1>2, <1>3, <1>5 DEF Writing, Process
<1>11. Locks'
  BY <1>2, <1>3, <1>5 DEF Locks, Apart, Process
<1>12. Reading(read)'
  <2>1. ~ (read.pc \in ReadPC /\ read.latest)
    BY DEF Clear, CompositeInv, Reading, Blocking, ReaderHolds, ReadPC
  <2> QED
    BY <1>3, <2>1 DEF CompositeInv, Reading, ReadPC
<1>13. Blocking'
  BY <1>2, <1>3 DEF Blocking
<1> QED
  BY <1>3, <1>6, <1>7, <1>8, <1>9, <1>10, <1>11, <1>12, <1>13 DEF CompositeInv

-----------------------------------------------------------------------------
(* The reader                                                               *)

(* The largest element of a bounded set of numbers is what it says.         *)
LEMMA LargestIs ==
    ASSUME NEW n \in Nat, NEW S \in SUBSET (0..n)
    PROVE  /\ Largest(S) \in Nat
           /\ S # {} => Largest(S) \in S
           /\ \A s \in S : s <= Largest(S)
           /\ S = {} => Largest(S) = 0
<1> DEFINE T == {n - s : s \in S}
           R == OpToRel(<, Nat)
<1>1. ASSUME S # {}
      PROVE  \E s \in S : \A t \in S : t <= s
  <2>1. T \subseteq Nat /\ T # {}
    <3>1. \A s \in S : s \in Nat /\ s <= n
      OBVIOUS
    <3>2. \A s \in S : n - s \in Nat
      BY <3>1
    <3> QED
      BY <1>1, <3>2
  <2>2. PICK x \in T : \A y \in T : ~ (<<y, x>> \in R)
    <3>1. IsWellFoundedOn(R, Nat)
      BY NatLessThanWellFounded
    <3> HIDE DEF T, R
    <3> QED
      BY <2>1, <3>1, WFMin
  <2>3. \A y \in T : ~ (y < x)
    BY <2>1, <2>2 DEF OpToRel
  <2>4. PICK s \in S : x = n - s
    OBVIOUS
  <2>5. \A t \in S : ~ (n - t < n - s)
    BY <2>3, <2>4
  <2> QED
    BY <2>5
<1>2. CASE S = {}
  BY <1>2 DEF Largest
<1>3. CASE S # {}
  <2>1. Largest(S) \in S /\ \A t \in S : t <= Largest(S)
    BY <1>1, <1>3 DEF Largest
  <2>2. S \subseteq Nat
    OBVIOUS
  <2> QED
    BY <1>3, <2>1, <2>2
<1> QED
  BY <1>2, <1>3

LEMMA ReadStep ==
    ASSUME CompositeInv, UNCHANGED <<ledger, facts, publications, defined, lease, task>>,
           NEW r, read' = r, Reading(r),
           r.pc # "idle" /\ "facts" \in r.held => task[Seeder].pc # "lock_publications"
    PROVE  CompositeInv'
<1> USE DEF CompositeInv
<1>1. LedgerInv' /\ LedgerLater
  BY LedgerStays
<1>2. StoreLater
  BY DEF StoreLater
<1>3. Reading(r)'
  BY <1>1, <1>2, ReadingKept
<1>4. TypeOK' /\ LineageInv'
  BY DEF TypeOK, LineageInv
<1>5. PublicationIsExact'
  BY DEF PublicationIsExact, FactsOf, Families
<1>6. LedgerMatchesFacts'
  <2>1. \A x : PublicationsOf(x)' = PublicationsOf(x) /\ FactsOf(x)' = FactsOf(x)
    BY DEF PublicationsOf, FactsOf
  <2>2. \A n, row : Agrees(n, row) => Agrees(n, row)'
    BY <2>1, AgreementKept
  <2> QED
    BY <2>2, Agreement
<1>7. \A w \in Worker : Working(task[w])'
  BY DEF Working, Known, Settled
<1>8. Seeding(task[Seeder])'
  BY DEF Seeding, SeedRow
<1>9. \A p \in Process : Writing(task[p])'
  BY DEF Writing, Manifest, MemberFacts, SeedFacts, Families, FactsOf, PublicationsOf, Ready
<1>10. Locks'
  BY DEF Locks, Apart
<1>11. Blocking'
  BY DEF Blocking, ReaderHolds
<1> QED
  BY <1>1, <1>3, <1>4, <1>5, <1>6, <1>7, <1>8, <1>9, <1>10, <1>11

LEMMA RefuseInv ==
    ASSUME CompositeInv, UNCHANGED <<ledger, facts, publications, defined, lease, task>>, Refuse
    PROVE  CompositeInv'
<1>1. Reading(Idle) /\ Idle.pc = "idle"
  BY DEF Reading, Idle, ReadPC
<1> QED
  BY <1>1, ReadStep DEF Refuse

(* Sequences of stored rows.                                                *)
LEMMA SequencesBounded ==
    ASSUME CompositeInv
    PROVE  /\ MaxSequence \in Nat
           /\ \A f \in facts : f.sequence \in 0..MaxSequence
           /\ \A q \in publications : q.sequence \in 0..MaxSequence
<1>1. MaxSequence \in Nat
  BY CompositeAssumption
<1>2. \A x \in Sequence : x \in 0..MaxSequence
  BY <1>1 DEF Sequence
<1>3. facts \subseteq Fact /\ publications \subseteq Publication
  BY DEF CompositeInv, TypeOK
<1> QED
  BY <1>1, <1>2, <1>3 DEF Fact, Publication

(* What a new read remembers of the moment it begins.                       *)
LEMMA NewReadKnows ==
    ASSUME CompositeInv, NEW w \in Window, NEW pc \in ReadPC, NEW latest \in BOOLEAN, NEW s \in Nat,
           NEW held \in SUBSET {"facts", "publications"}, NewRead(pc, w, latest, s, held)
    PROVE  \E r : /\ read' = r /\ r \in ReadRecord /\ r.pc = pc /\ r.window = w /\ r.latest = latest
                  /\ r.sequence = s /\ r.held = held /\ OpenKnown(r) /\ r.expected = None /\ r.rows = {}
                  /\ r.released = 0 \/ \E q \in publications : PublicationAnchor(r, r.released, q)
<1>1. PICK released, open :
          /\ released = Largest({p.sequence : p \in {q \in publications :
                                        w \subseteq q.window /\ Released(q)}})
          /\ open = {m \in Materialization : ledger[m] # None /\ ledger[m].window \cap w # {}}
  OBVIOUS
<1>2. PICK r : r = [pc |-> pc, window |-> w, latest |-> latest, sequence |-> s, held |-> held,
                    expected |-> None, rows |-> {}, released |-> released, open |-> open]
  OBVIOUS
<1>3. read' = r
  BY <1>1, <1>2 DEF NewRead
<1>4. PICK S : S = {p.sequence : p \in {q \in publications : w \subseteq q.window /\ Released(q)}}
  OBVIOUS
<1>5. S \in SUBSET (0..MaxSequence)
  BY <1>4, SequencesBounded
<1>6. released \in Nat /\ (released = 0 \/ released \in S)
  BY <1>1, <1>4, <1>5, SequencesBounded, LargestIs
<1>7. r \in ReadRecord
  BY <1>1, <1>2, <1>6 DEF ReadRecord
<1>8. OpenKnown(r)
  BY <1>1, <1>2 DEF OpenKnown
<1>9. r.released = 0 \/ \E q \in publications : PublicationAnchor(r, r.released, q)
  BY <1>2, <1>4, <1>6 DEF PublicationAnchor
<1> QED
  BY <1>2, <1>3, <1>7, <1>8, <1>9

LEMMA LatestFactInv ==
    ASSUME CompositeInv, NEW w \in Window, LatestFact(w)
    PROVE  CompositeInv'
<1>1. UNCHANGED <<ledger, facts, publications, defined, lease, task>>
  BY DEF LatestFact, store
<1>2. PICK S : S = {f.sequence : f \in {g \in facts : g.window \subseteq w}}
  OBVIOUS
<1>3. PICK s : s = Largest(S)
  OBVIOUS
<1>4. S \in SUBSET (0..MaxSequence)
  BY <1>2, SequencesBounded
<1>5. s \in Nat /\ (s = 0 \/ s \in S)
  BY <1>3, <1>4, SequencesBounded, LargestIs
<1>6. NewRead("latest_publication", w, TRUE, s, {"facts"})
  BY <1>2, <1>3 DEF LatestFact
<1>7. PICK r : /\ read' = r /\ r \in ReadRecord /\ r.pc = "latest_publication" /\ r.window = w
               /\ r.latest = TRUE /\ r.sequence = s /\ r.held = {"facts"} /\ OpenKnown(r) /\ r.expected = None
               /\ r.rows = {}
               /\ r.released = 0 \/ \E q \in publications : PublicationAnchor(r, r.released, q)
  <2>1. PICK pc, held, latest : pc = "latest_publication" /\ held = {"facts"} /\ latest = TRUE
    OBVIOUS
  <2>2. pc \in ReadPC /\ held \in SUBSET {"facts", "publications"} /\ latest \in BOOLEAN
    BY <2>1 DEF ReadPC
  <2>3. NewRead(pc, w, latest, s, held)
    BY <1>6, <2>1
  <2>4. \E r : /\ read' = r /\ r \in ReadRecord /\ r.pc = pc /\ r.window = w /\ r.latest = latest
               /\ r.sequence = s /\ r.held = held /\ OpenKnown(r) /\ r.expected = None /\ r.rows = {}
               /\ r.released = 0 \/ \E q \in publications : PublicationAnchor(r, r.released, q)
    BY <1>5, <2>2, <2>3, NewReadKnows
  <2> QED
    BY <2>1, <2>4
<1>8. r.sequence = 0 \/ \E f \in facts : FactAnchor(r, f)
  BY <1>2, <1>5, <1>7 DEF FactAnchor
<1>9. Reading(r)
  BY <1>7, <1>8 DEF Reading, ReadPC
<1>10. task[Seeder].pc # "lock_publications"
  BY DEF LatestFact, TableReadable
<1> QED
  BY <1>1, <1>7, <1>9, <1>10, ReadStep

LEMMA ExplicitReadInv ==
    ASSUME CompositeInv, NEW w \in Window, NEW s \in Nat, ExplicitRead(w, s)
    PROVE  CompositeInv'
<1>1. UNCHANGED <<ledger, facts, publications, defined, lease, task>>
  BY DEF ExplicitRead, store
<1>2. NewRead("families", w, FALSE, s, {})
  BY DEF ExplicitRead
<1>3. PICK r : /\ read' = r /\ r \in ReadRecord /\ r.pc = "families" /\ r.latest = FALSE
               /\ r.held = {} /\ r.expected = None
  <2>1. PICK pc, held, latest : pc = "families" /\ held = {} /\ latest = FALSE
    OBVIOUS
  <2>2. pc \in ReadPC /\ held \in SUBSET {"facts", "publications"} /\ latest \in BOOLEAN
    BY <2>1 DEF ReadPC
  <2>3. NewRead(pc, w, latest, s, held)
    BY <1>2, <2>1
  <2> QED
    BY <2>1, <2>2, <2>3, NewReadKnows
<1>4. Reading(r)
  BY <1>3 DEF Reading, ReadPC
<1> QED
  BY <1>1, <1>3, <1>4, ReadStep

LEMMA LatestPublicationInv ==
    ASSUME CompositeInv, LatestPublication
    PROVE  CompositeInv'
<1> USE DEF ReadPC
<1>1. UNCHANGED <<ledger, facts, publications, defined, lease, task>>
  BY DEF LatestPublication, store
<1>2. PICK S : S = {read.sequence} \cup
                   {p.sequence : p \in {q \in publications : read.window \subseteq q.window}}
  OBVIOUS
<1>3. PICK s : s = Largest(S)
  OBVIOUS
<1>4. /\ read.pc = "latest_publication" /\ read \in ReadRecord /\ read.latest /\ read.sequence \in Nat
      /\ read.released \in Nat /\ "facts" \in read.held /\ OpenKnown(read) /\ read.expected = None
      /\ read.rows = {}
      /\ read.sequence = 0 \/ \E f \in facts : FactAnchor(read, f)
      /\ read.released = 0 \/ \E q \in publications : PublicationAnchor(read, read.released, q)
  BY DEF LatestPublication, CompositeInv, Reading, ReadRecord
<1>5. s \in S /\ s \in Nat /\ \A x \in S : x <= s
  <2>1. PICK n : n = read.sequence + MaxSequence
    OBVIOUS
  <2>2. n \in Nat /\ read.sequence \in 0..n /\ \A x \in 0..MaxSequence : x \in 0..n
    BY <1>4, <2>1, SequencesBounded
  <2>3. S \in SUBSET (0..n)
    BY <1>2, <2>2, SequencesBounded
  <2> QED
    BY <1>2, <1>3, <2>2, <2>3, LargestIs
<1>6. CASE s = 0
  <2>1. PICK r : r = Touch([read EXCEPT !.pc = "returned", !.sequence = s], "publications")
    OBVIOUS
  <2>2. read' = r
    BY <1>2, <1>3, <1>6, <2>1 DEF LatestPublication, LatestSequence
  <2>3. /\ r \in ReadRecord /\ r.pc = "returned" /\ r.sequence = 0 /\ r.window = read.window
        /\ r.latest = read.latest /\ r.released = read.released /\ r.open = read.open
        /\ r.held = read.held \cup {"publications"} /\ r.rows = read.rows
    BY <1>4, <1>5, <1>6, <2>1 DEF ReadRecord, Touch
  <2>4. read.released = 0
    <3>1. ASSUME read.released # 0
          PROVE  read.released \in S
      BY <1>2, <1>4, <3>1 DEF PublicationAnchor
    <3> QED
      BY <1>4, <1>5, <1>6, <3>1
  <2>5. OpenKnown(r) /\ Empty(r)
    BY <1>4, <2>3, <2>4 DEF OpenKnown, Empty
  <2>6. Reading(r)
    BY <1>4, <2>3, <2>5 DEF Reading
  <2>7. task[Seeder].pc # "lock_publications"
    BY <1>4 DEF CompositeInv, Blocking, ReaderHolds
  <2> QED
    BY <1>1, <2>2, <2>6, <2>7, ReadStep
<1>7. CASE s # 0
  <2>1. PICK r : r = Touch([read EXCEPT !.pc = "unreleased", !.sequence = s], "publications")
    OBVIOUS
  <2>2. read' = r
    BY <1>2, <1>3, <1>7, <2>1 DEF LatestPublication, LatestSequence
  <2>3. /\ r \in ReadRecord /\ r.pc = "unreleased" /\ r.sequence = s /\ r.window = read.window
        /\ r.latest = read.latest /\ r.released = read.released /\ r.open = read.open
        /\ r.held = read.held \cup {"publications"} /\ r.expected = read.expected
    BY <1>4, <1>5, <2>1 DEF ReadRecord, Touch
  <2>4. Anchored(r)
    <3>1. CASE s = read.sequence
      BY <1>4, <1>7, <2>3, <3>1 DEF Anchored, FactAnchor
    <3>2. CASE s # read.sequence
      BY <1>2, <1>5, <2>3, <3>2 DEF Anchored, PublicationAnchor
    <3> QED
      BY <3>1, <3>2
  <2>5. r.released <= r.sequence
    <3>1. CASE read.released = 0
      BY <1>5, <2>3, <3>1
    <3>2. CASE read.released # 0
      <4>1. read.released \in S
        BY <1>2, <1>4, <3>2 DEF PublicationAnchor
      <4> QED
        BY <1>5, <2>3, <4>1
    <3> QED
      BY <3>1, <3>2
  <2>6. OpenKnown(r)
    BY <1>4, <2>3 DEF OpenKnown
  <2>7. Reading(r)
    BY <1>4, <2>3, <2>4, <2>5, <2>6 DEF Reading
  <2>8. task[Seeder].pc # "lock_publications"
    BY <1>4 DEF CompositeInv, Blocking, ReaderHolds
  <2> QED
    BY <1>1, <2>2, <2>7, <2>8, ReadStep
<1> QED
  BY <1>6, <1>7

(* After the check of the ledger the anchor of the read is released, and    *)
(* what was open above it is published.                                     *)
LEMMA CheckUnreleasedInv ==
    ASSUME CompositeInv, CheckUnreleased
    PROVE  CompositeInv'
<1> USE DEF ReadPC
<1>1. UNCHANGED <<ledger, facts, publications, defined, lease, task>>
  BY DEF CheckUnreleased, store
<1>2. /\ read.pc = "unreleased" /\ read \in ReadRecord /\ read.latest /\ read.sequence \in Nat
      /\ "facts" \in read.held /\ OpenKnown(read) /\ Anchored(read) /\ read.released <= read.sequence
      /\ read.window \in Window /\ read.expected = None
  BY DEF CheckUnreleased, CompositeInv, Reading, ReadRecord
<1>3. CASE Unreleased(read.window, read.sequence, TRUE) # {}
  BY <1>1, <1>3, RefuseInv DEF CheckUnreleased
<1>4. CASE Unreleased(read.window, read.sequence, TRUE) = {}
  <2>1. PICK r : r = [read EXCEPT !.pc = "families"]
    OBVIOUS
  <2>2. read' = r
    BY <1>4, <2>1 DEF CheckUnreleased
  <2>3. /\ r \in ReadRecord /\ r.pc = "families" /\ r.sequence = read.sequence
        /\ r.window = read.window /\ r.latest = read.latest /\ r.released = read.released
        /\ r.open = read.open /\ r.held = read.held /\ r.expected = read.expected
    BY <1>2, <2>1 DEF ReadRecord
  <2>4. \A m \in Materialization :
            /\ ledger[m] # None /\ ledger[m].sequence >= read.sequence
            /\ ledger[m].window \cap read.window # {}
            => ledger[m].state = "COMPLETE"
    BY <1>4 DEF Unreleased
  <2>5. \A m \in Materialization : ledger[m] # None => ledger[m].sequence \in Nat
    BY CompositeAssumption DEF CompositeInv, LedgerInv, Row, Sequence
  <2>6. AnchorReleased(r)
    <3>1. ASSUME NEW f \in facts, FactAnchor(read, f), f.version \in Materialization
          PROVE  ledger[f.version].state = "COMPLETE"
      <4>1. /\ ledger[f.version] # None /\ ledger[f.version].sequence = read.sequence
            /\ ledger[f.version].window = f.window
        BY <3>1 DEF CompositeInv, LineageInv, FactAnchor
      <4>2. f.window \in Window /\ f.window \subseteq read.window
        BY <3>1 DEF CompositeInv, TypeOK, Fact, FactAnchor
      <4>3. f.window # {}
        BY <4>2, CompositeAssumption
      <4>4. ledger[f.version].window \cap read.window # {}
        BY <4>1, <4>2, <4>3
      <4> QED
        BY <1>2, <2>4, <2>5, <3>1, <4>1, <4>4
    <3>2. ASSUME NEW q \in publications, PublicationAnchor(read, read.sequence, q)
          PROVE  Released(q)
      <4> SUFFICES ASSUME q.lineage \in Materialization
                   PROVE  ledger[q.lineage].state = "COMPLETE"
        BY DEF Released
      <4>1. /\ ledger[q.lineage] # None /\ ledger[q.lineage].sequence = read.sequence
            /\ read.window \subseteq ledger[q.lineage].window
        BY <3>2 DEF CompositeInv, LineageInv, PublicationAnchor
      <4>2. read.window # {}
        BY <1>2, CompositeAssumption
      <4>3. ledger[q.lineage].window \cap read.window # {}
        BY <4>1, <4>2
      <4> QED
        BY <1>2, <2>4, <2>5, <4>1, <4>3
    <3>3. AnchorReleased(read)
      BY <1>2, <3>1, <3>2 DEF Anchored, AnchorReleased
    <3> QED
      BY <2>3, <3>3 DEF AnchorReleased, FactAnchor, PublicationAnchor
  <2>7. Fresh(r) /\ OpenKnown(r)
    <3>1. ASSUME NEW m \in read.open, ledger[m].sequence > read.sequence
          PROVE  ledger[m].state = "COMPLETE"
      <4>1. m \in Materialization /\ ledger[m] # None /\ ledger[m].window \cap read.window # {}
        BY <1>2 DEF OpenKnown
      <4>2. ledger[m].sequence >= read.sequence
        BY <1>2, <2>5, <3>1, <4>1
      <4> QED
        BY <2>4, <4>1, <4>2
    <3> QED
      BY <1>2, <2>3, <3>1 DEF Fresh, OpenKnown
  <2>8. Reading(r)
    BY <1>2, <2>3, <2>6, <2>7 DEF Reading
  <2>9. task[Seeder].pc # "lock_publications"
    BY <1>2 DEF CompositeInv, Blocking, ReaderHolds
  <2> QED
    BY <1>1, <2>2, <2>8, <2>9, ReadStep
<1> QED
  BY <1>3, <1>4

LEMMA PublishedFamiliesInv ==
    ASSUME CompositeInv, PublishedFamilies
    PROVE  CompositeInv'
<1> USE DEF ReadPC
<1>1. UNCHANGED <<ledger, facts, publications, defined, lease, task>>
  BY DEF PublishedFamilies, store
<1>2. /\ read.pc = "families" /\ read \in ReadRecord
      /\ read.latest => "facts" \in read.held /\ OpenKnown(read) /\ AnchorReleased(read) /\ Fresh(read)
  BY DEF PublishedFamilies, CompositeInv, Reading
<1>3. ASSUME NEW e \in {None} \cup SUBSET (Portfolio \X Window), NEW r,
             read' = r, r.pc = "rows", r \in ReadRecord, r.sequence = read.sequence,
             r.window = read.window, r.latest = read.latest, r.released = read.released,
             r.open = read.open, r.held = read.held \cup {"publications"}, r.expected = e,
             e # None => \E q \in publications : Answer(r, q)
      PROVE  CompositeInv'
  <2>1. read.latest => OpenKnown(r) /\ AnchorReleased(r) /\ Fresh(r)
    BY <1>2, <1>3 DEF OpenKnown, AnchorReleased, Fresh, FactAnchor, PublicationAnchor
  <2>2. Reading(r)
    BY <1>2, <1>3, <2>1 DEF Reading
  <2>3. "facts" \in r.held => task[Seeder].pc # "lock_publications"
    BY <1>2, <1>3 DEF CompositeInv, Blocking, ReaderHolds
  <2> QED
    BY <1>1, <1>3, <2>2, <2>3, ReadStep
<1>4. PICK next : next = Touch([read EXCEPT !.pc = "rows"], "publications")
  OBVIOUS
<1>5. /\ next \in ReadRecord /\ next.pc = "rows" /\ next.sequence = read.sequence
      /\ next.window = read.window /\ next.latest = read.latest /\ next.released = read.released
      /\ next.open = read.open /\ next.held = read.held \cup {"publications"}
      /\ next.expected = read.expected
  BY <1>2, <1>4 DEF ReadRecord, Touch
<1>6. CASE read' = next /\ PublicationsOf(read.sequence) = {}
  <2>1. read.expected = None
    BY DEF PublishedFamilies, CompositeInv, Reading
  <2>2. next.expected \in {None} \cup SUBSET (Portfolio \X Window)
    BY <1>5 DEF ReadRecord
  <2> QED
    BY <1>3, <1>5, <1>6, <2>1, <2>2
<1>7. CASE Refuse
  BY <1>1, <1>7, RefuseInv
<1>8. ASSUME NEW q \in PublicationsOf(read.sequence), read.window \subseteq q.window,
             read' = [next EXCEPT !.expected = Within(q.families, read.window)]
      PROVE  CompositeInv'
  <2>1. PICK e : e = Within(q.families, read.window)
    OBVIOUS
  <2>2. q \in publications /\ q.sequence = read.sequence /\ q \in Publication
    BY DEF PublicationsOf, CompositeInv, TypeOK
  <2>3. e \in SUBSET (Portfolio \X Window)
    BY <2>1, <2>2 DEF Within, Publication
  <2>4. PICK r : r = [next EXCEPT !.expected = e]
    OBVIOUS
  <2>5. /\ read' = r /\ r.pc = "rows" /\ r \in ReadRecord /\ r.sequence = read.sequence
        /\ r.window = read.window /\ r.latest = read.latest /\ r.released = read.released
        /\ r.open = read.open /\ r.held = read.held \cup {"publications"} /\ r.expected = e
    BY <1>5, <1>8, <2>1, <2>3, <2>4 DEF ReadRecord
  <2>6. Answer(r, q)
    BY <1>8, <2>1, <2>2, <2>5 DEF Answer, PublicationAnchor
  <2> QED
    BY <1>3, <2>2, <2>3, <2>5, <2>6
<1> QED
  BY <1>4, <1>6, <1>7, <1>8 DEF PublishedFamilies

(* The publication that answers a latest read is released: it was there     *)
(* when the ledger was checked, or a fact of it was.                        *)
LEMMA AnswerIsReleased ==
    ASSUME CompositeInv, NEW r, AnchorReleased(r),
           NEW q \in publications, PublicationAnchor(r, r.sequence, q)
    PROVE  Released(q)
<1>1. ASSUME NEW x \in publications, PublicationAnchor(r, r.sequence, x), Released(x)
      PROVE  Released(q)
  <2>1. x = q
    BY <1>1 DEF PublicationAnchor, CompositeInv, TypeOK
  <2> QED
    BY <1>1, <2>1
<1>2. ASSUME NEW f \in facts, FactAnchor(r, f),
             f.version \in Materialization => ledger[f.version].state = "COMPLETE"
      PROVE  Released(q)
  <2> SUFFICES ASSUME q.lineage \in Materialization
               PROVE  ledger[q.lineage].state = "COMPLETE"
    BY DEF Released
  <2>1. PICK m : m = q.lineage
    OBVIOUS
  <2>2. m \in Materialization /\ ledger[m] # None /\ ledger[m].sequence = q.sequence
    BY <2>1 DEF CompositeInv, LineageInv
  <2>3. q \in PublicationsOf(ledger[m].sequence)
    BY <2>2 DEF PublicationsOf
  <2>4. FactsOf(q.sequence) = MemberFacts(m, ledger[m])
    BY <2>1, <2>2, <2>3 DEF CompositeInv, LedgerMatchesFacts
  <2>5. f \in FactsOf(q.sequence)
    BY <1>2 DEF FactsOf, FactAnchor, PublicationAnchor
  <2>6. f.version = m
    BY <2>4, <2>5 DEF MemberFacts
  <2> QED
    BY <1>2, <2>1, <2>2, <2>6
<1> QED
  BY <1>1, <1>2 DEF AnchorReleased

LEMMA ReadRowsInv ==
    ASSUME CompositeInv, ReadRows
    PROVE  CompositeInv'
<1> USE DEF ReadPC
<1>1. UNCHANGED <<ledger, facts, publications, defined, lease, task>>
  BY DEF ReadRows, store
<1>2. /\ read.pc = "rows" /\ read \in ReadRecord
      /\ read.latest => /\ "facts" \in read.held /\ OpenKnown(read) /\ AnchorReleased(read) /\ Fresh(read)
                        /\ read.expected # None => \E q \in publications : Answer(read, q)
  BY DEF ReadRows, CompositeInv, Reading
<1>3. CASE ~ SelectionValid(Selected)
  BY <1>1, <1>3, RefuseInv DEF ReadRows
<1>4. CASE SelectionValid(Selected)
  <2>1. PICK rows : rows = Selected
    OBVIOUS
  <2>2. rows = {f \in FactsOf(read.sequence) : f.window \subseteq read.window} /\ rows \in SUBSET Fact
    BY <2>1 DEF Selected, FactsOf, CompositeInv, TypeOK
  <2>3. PICK r : r = Touch([read EXCEPT !.pc = "returned", !.rows = rows], "facts")
    OBVIOUS
  <2>4. read' = r
    BY <1>4, <2>1, <2>3 DEF ReadRows
  <2>5. /\ r \in ReadRecord /\ r.pc = "returned" /\ r.sequence = read.sequence
        /\ r.window = read.window /\ r.latest = read.latest /\ r.released = read.released
        /\ r.open = read.open /\ r.held = read.held \cup {"facts"} /\ r.rows = rows
    BY <1>2, <2>2, <2>3 DEF ReadRecord, Touch
  <2>6. read.latest => OpenKnown(r) /\ AnchorReleased(r) /\ Fresh(r)
    BY <1>2, <2>5 DEF OpenKnown, AnchorReleased, Fresh, FactAnchor, PublicationAnchor
  <2>7. ASSUME read.latest
        PROVE  Answered(r)
    <3>1. read.expected # None /\ Families(rows) = read.expected
      BY <1>4, <2>1, <2>7 DEF SelectionValid
    <3>2. PICK q \in publications : Answer(read, q)
      BY <1>2, <2>7, <3>1
    <3>3. PublicationAnchor(r, r.sequence, q) /\ Families(rows) = Within(q.families, r.window)
      BY <2>5, <3>1, <3>2 DEF Answer, PublicationAnchor
    <3>4. Released(q)
      BY <2>6, <2>7, <3>3, AnswerIsReleased
    <3> QED
      BY <2>2, <2>5, <3>3, <3>4 DEF Answered
  <2>8. Reading(r)
    BY <2>5, <2>6, <2>7 DEF Reading
  <2>9. task[Seeder].pc # "lock_publications"
    BY DEF ReadRows, TableReadable
  <2> QED
    BY <1>1, <2>4, <2>8, <2>9, ReadStep
<1> QED
  BY <1>3, <1>4

LEMMA DeadlockVictimInv ==
    ASSUME CompositeInv, DeadlockVictim
    PROVE  CompositeInv'
<1>1. UNCHANGED <<ledger, facts, publications, defined, lease>> /\ defined' \in BOOLEAN
  BY DEF DeadlockVictim, store, CompositeInv, TypeOK
<1>2. CASE Refuse /\ UNCHANGED task
  BY <1>1, <1>2, RefuseInv
<1>3. CASE Goto(Seeder, Idle) /\ UNCHANGED read
  BY <1>1, <1>3, IdleTask, SeederMoves DEF Inserting
<1> QED
  BY <1>2, <1>3 DEF DeadlockVictim

LEMMA ReaderInv ==
    ASSUME CompositeInv, Reader
    PROVE  CompositeInv'
<1>1. \A x \in Request : x[1] \in Window /\ x[2] \in Nat
  <2>1. Request \subseteq Window \X (0..MaxSequence) /\ MaxSequence \in Nat
    BY CompositeAssumption
  <2> QED
    BY <2>1
<1>2. CASE EndRead
  BY <1>2, RefuseInv DEF EndRead, store
<1> QED
  BY <1>1, <1>2, LatestFactInv, ExplicitReadInv, LatestPublicationInv, CheckUnreleasedInv,
     PublishedFamiliesInv, ReadRowsInv, DeadlockVictimInv DEF Reader

-----------------------------------------------------------------------------
(* The theorems                                                             *)

LEMMA CompositeInit == Init => CompositeInv
<1> SUFFICES ASSUME Init
             PROVE  CompositeInv
  OBVIOUS
<1> USE DEF Init
<1>1. TypeOK /\ LedgerInv /\ LineageInv /\ PublicationIsExact /\ LedgerMatchesFacts
  BY DEF TypeOK, LedgerInv, LineageInv, PublicationIsExact, LedgerMatchesFacts
<1>2. DOMAIN task = Process /\ \A p \in Process : task[p] = Idle
  OBVIOUS
<1>3. (\A w \in Worker : Working(task[w])) /\ Seeding(task[Seeder]) /\ \A p \in Process : Writing(task[p])
  BY <1>2, IdleTask DEF Process
<1>4. Locks
  BY <1>2, IdleTask DEF Locks
<1>5. Reading(read) /\ Blocking
  BY DEF Reading, Idle, ReadPC, Blocking, ReaderHolds
<1> QED
  BY <1>1, <1>2, <1>3, <1>4, <1>5 DEF CompositeInv

LEMMA CompositeNext == CompositeInv /\ [Next]_vars => CompositeInv'
<1> SUFFICES ASSUME CompositeInv, [Next]_vars
             PROVE  CompositeInv'
  OBVIOUS
<1>1. ASSUME NEW m \in Materialization, NEW s \in Sequence, NEW w \in CommandWindow, Submit(m, s, w)
      PROVE  CompositeInv'
  BY <1>1, SubmitInv
<1>2. ASSUME NEW w \in Worker, Attempt(w)
      PROVE  CompositeInv'
  BY <1>2, ClaimInv, LoadInv, PinSourceInv, ResolveMemberInv, ReleaseInv, SaveInv DEF Attempt
<1>3. ASSUME NEW p \in Process, StoreCall(p)
      PROVE  CompositeInv'
  BY <1>3, UpsertDefinitionInv, CheckFactInv, CommitFactInv, CheckPublicationInv,
     CommitPublicationInv, CrashInv DEF StoreCall
<1>4. CASE Maintenance
  BY <1>4, MaintenanceMoves, ClearInv DEF Maintenance
<1>5. CASE Reader
  BY <1>5, ReaderInv
<1>6. CASE UNCHANGED vars
  <2>1. Reading(read) /\ (read.pc # "idle" /\ "facts" \in read.held => task[Seeder].pc # "lock_publications")
    BY DEF CompositeInv, Blocking, ReaderHolds
  <2> QED
    BY <1>6, <2>1, ReadStep DEF vars
<1> QED
  BY <1>1, <1>2, <1>3, <1>4, <1>5, <1>6 DEF Next

LEMMA CompositeInvariance == Spec => []CompositeInv
BY CompositeInit, CompositeNext, PTL DEF Spec

(* The stores stay well formed and respect the primary key of the          *)
(* publications and the unique indexes of the facts, whoever writes        *)
(* (CompositeMemberReturnFactModel).                                       *)
THEOREM CompositeTypeCorrect == Spec => []TypeOK
<1>1. CompositeInv => TypeOK
  BY DEF CompositeInv
<1> QED
  BY <1>1, CompositeInvariance, PTL

(* However many writers, completions, retries and crashes overlap, a       *)
(* publication names exactly the families stored for its sequence          *)
(* (complete_member_return_fact_publication under its lock).               *)
THEOREM PublicationsAreExact == Spec => []PublicationIsExact
<1>1. CompositeInv => PublicationIsExact
  BY DEF CompositeInv
<1> QED
  BY <1>1, CompositeInvariance, PTL

(* The ledger and the facts agree, content and all, although attempts that *)
(* have lost their lease go on writing (CompositeMaterializationStore.save *)
(* and _publish).                                                          *)
THEOREM LedgerAgreesWithFacts == Spec => []LedgerMatchesFacts
<1>1. CompositeInv => LedgerMatchesFacts
  BY DEF CompositeInv
<1> QED
  BY <1>1, CompositeInvariance, PTL

(* A latest read answers with exactly the published facts of a released    *)
(* sequence, though each of its statements sees another moment             *)
(* (list_member_return_facts under Read Committed).                        *)
THEOREM LatestReadsArePublished == Spec => []LatestReadIsPublished
<1>1. ASSUME Answered(read)
      PROVE  \E p \in PublicationsOf(read.sequence) :
                /\ read.window \subseteq p.window
                /\ Released(p)
                /\ read.rows = Selected
                /\ Families(read.rows) = Within(p.families, read.window)
  BY <1>1 DEF Answered, PublicationAnchor, PublicationsOf, Selected
<1>2. CompositeInv => LatestReadIsPublished
  BY <1>1 DEF LatestReadIsPublished, CompositeInv, Reading, ReadPC, Empty
<1> QED
  BY <1>2, CompositeInvariance, PTL

(* A latest read is not older than what was released when it began, and no *)
(* answer with a sequence is given over a materialization that was open    *)
(* above it; an empty answer means that nothing covering was released      *)
(* (_resolve_member_return_fact_sequence and the check of the ledger).     *)
THEOREM LatestReadsAreFresh == Spec => []LatestReadIsFresh
<1>1. CompositeInv => LatestReadIsFresh
  BY DEF CompositeInv, LatestReadIsFresh, Reading, ReadPC, Fresh, Empty
<1> QED
  BY <1>1, CompositeInvariance, PTL

(* What a step may do to the store.                                        *)
LEMMA CommitStores ==
    ASSUME CompositeInv, NEW p \in Process, CommitFact(p)
    PROVE  StoreLater
<1>1. PICK f, s : f = task[p].fact /\ s = task[p].row.sequence
  OBVIOUS
<1>2. f \in Manifest(task[p]) /\ PublicationsOf(s) = {} /\ task[p].pc \in Publisher
  BY <1>1 DEF CommitFact, CompositeInv, Writing, Publisher, Writer, Inserting
<1>3. f.sequence = s
  BY <1>1, <1>2, ManifestFacts
<1>4. facts' \subseteq facts \cup {f} /\ facts \subseteq facts' /\ UNCHANGED publications
  BY <1>1 DEF CommitFact
<1> QED
  BY <1>2, <1>3, <1>4 DEF StoreLater, PublicationsOf

LEMMA NextStores ==
    ASSUME CompositeInv, [Next]_vars
    PROVE  StoreLater \/ (publications' = {} /\ \A m \in Materialization : ledger'[m] = None)
<1>1. CASE UNCHANGED <<facts, publications>>
  BY <1>1 DEF StoreLater
<1>2. ASSUME NEW p \in Process, StoreCall(p)
      PROVE  StoreLater
  <2>1. CASE CommitFact(p)
    BY <2>1, CommitStores
  <2>2. CASE CommitPublication(p)
    BY <2>2 DEF CommitPublication, StoreLater
  <2>3. CASE UpsertDefinition(p) \/ (\E f : CheckFact(p, f)) \/ CheckPublication(p) \/ Crash(p)
    <3>1. UNCHANGED <<facts, publications>>
      BY <2>3 DEF UpsertDefinition, CheckFact, CheckPublication, Crash, store
    <3> QED
      BY <1>1, <3>1 DEF StoreLater
  <2> QED
    BY <1>2, <2>1, <2>2, <2>3 DEF StoreCall
<1>3. CASE Clear
  BY <1>3 DEF Clear, CompositeInv, Seeding
<1>4. ASSUME NEW w \in Worker, Attempt(w)
      PROVE  UNCHANGED <<facts, publications>>
  BY <1>4 DEF Attempt, Claim, Load, PinSource, ResolveMember, Release, Save, store
<1>5. CASE Reader
  BY <1>1, <1>5 DEF Reader, LatestFact, ExplicitRead, LatestPublication, CheckUnreleased,
     PublishedFamilies, ReadRows, EndRead, DeadlockVictim, store
<1>6. CASE BeginMaintenance \/ LockFacts
  BY <1>1, <1>6 DEF BeginMaintenance, LockFacts, store
<1>7. ASSUME NEW m, NEW s, NEW w, Submit(m, s, w)
      PROVE  UNCHANGED <<facts, publications>>
  BY <1>7 DEF Submit, store
<1> QED
  BY <1>1, <1>2, <1>3, <1>4, <1>5, <1>6, <1>7 DEF Next, Maintenance, vars

(* No step takes a publication away or touches a fact of its sequence, but *)
(* for maintenance, and that only while the ledger is empty (the           *)
(* immutability triggers and the maintenance guards).                      *)
THEOREM PublicationsAreImmutable == Spec => PublishedIsImmutable
<1>1. ASSUME CompositeInv, [Next]_vars, NEW p \in publications
      PROVE  \/ p \in publications' /\ FactsOf(p.sequence)' = FactsOf(p.sequence)
             \/ publications' = {} /\ \A m \in Materialization : ledger'[m] = None
  <2>1. StoreLater => p \in publications' /\ FactsOf(p.sequence)' = FactsOf(p.sequence)
    BY DEF StoreLater, FactsOf
  <2> QED
    BY <1>1, <2>1, NextStores
<1>2. CompositeInv /\ [Next]_vars =>
          [\A p \in publications :
              \/ p \in publications' /\ FactsOf(p.sequence)' = FactsOf(p.sequence)
              \/ publications' = {} /\ \A m \in Materialization : ledger'[m] = None]_vars
  BY <1>1
<1> QED
  BY <1>2, CompositeInvariance, PTL DEF Spec, PublishedIsImmutable

=============================================================================
