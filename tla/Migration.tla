----------------------------- MODULE Migration -----------------------------
(***************************************************************************)
(* The embedded migrations of one database file (store/src/migrate.rs),    *)
(* run by every process that opens it, any number of them at once.         *)
(*                                                                         *)
(* A body stands for its SQL and its checksum.  A version is looked up     *)
(* outside any transaction; what follows is one transaction of its own, so *)
(* other openers come in between and a crash loses all of it or nothing.   *)
(***************************************************************************)
EXTENDS Naturals

CONSTANTS
  Openers,     \* processes
  Bodies,      \* every body that was ever shipped
  LastVersion,
  Absent,      \* no row, no schema
  SchemaOf,    \* Bodies -> the tables a body leaves: an edit of comments keeps them
  Superseded,  \* SUPERSEDED_BODIES: old body -> the body its heal reaches
  Embeds,      \* Openers -> the migration list of its release
  Ledgers      \* what schema_version may hold when it is found

Versions == 1 .. LastVersion

ASSUME MigrationConstants ==
  /\ LastVersion \in Nat \ {0}
  /\ Absent \notin Bodies
  /\ DOMAIN Superseded \subseteq Bodies
  /\ Embeds \in [Openers -> [Versions -> Bodies]]
  /\ Ledgers \subseteq [Versions -> Bodies \cup {Absent}]

VARIABLES
  ledger,  \* schema_version
  tables,  \* what each version's tables look like
  op       \* the open of each process

migrationVars == <<ledger, tables, op>>

-----------------------------------------------------------------------------
Closed == [at |-> "closed", v |-> 0, prev |-> Absent, why |-> "none"]
Opened(p) == op[p].at = "open"

\* The body that p's release has for the version it is at.
Mine(p) == Embeds[p][op[p].v]
Recorded(p) == ledger[op[p].v]
Due(p) == op[p].at = "check" /\ op[p].v \in Versions

MoveTo(p, place) == op' = [op EXCEPT ![p].at = place]
Fail(p, reason) == op' = [op EXCEPT ![p] = [Closed EXCEPT !.at = "failed", !.why = reason]]
NextVersion(p) ==
  op' = [op EXCEPT ![p] = [Closed EXCEPT !.at = "check", !.v = op[p].v + 1]]

TablesOf(l) == [v \in Versions |-> IF l[v] = Absent THEN Absent ELSE SchemaOf[l[v]]]

MigrationInit ==
  /\ ledger \in Ledgers
  /\ tables = TablesOf(ledger)
  /\ op = [p \in Openers |-> Closed]

BeginOpen(p) ==
  /\ op[p].at \in {"closed", "failed"}
  /\ op' = [op EXCEPT ![p] = [Closed EXCEPT !.at = "check", !.v = 1]]
  /\ UNCHANGED <<ledger, tables>>

\* Already applied and the body is the same.
Verified(p) ==
  /\ Due(p) /\ Recorded(p) = Mine(p)
  /\ NextVersion(p)
  /\ UNCHANGED <<ledger, tables>>

Pending(p) ==
  /\ Due(p) /\ Recorded(p) = Absent
  /\ MoveTo(p, "apply")
  /\ UNCHANGED <<ledger, tables>>

\* Another body was applied: an older release's known one, or one nobody knows.
IsSuperseded(p) ==
  /\ Due(p) /\ Recorded(p) # Mine(p) /\ Recorded(p) \in DOMAIN Superseded
  /\ op' = [op EXCEPT ![p].at = "heal", ![p].prev = Recorded(p)]
  /\ UNCHANGED <<ledger, tables>>

Mismatch(p) ==
  /\ Due(p) /\ Recorded(p) \notin {Mine(p), Absent} \cup DOMAIN Superseded
  /\ Fail(p, "mismatch")
  /\ UNCHANGED <<ledger, tables>>

\* The second look, under the write lock of an IMMEDIATE transaction.
\* Mutant: the first look is trusted.
StillPending_Trusted(p) == TRUE
StillPending(p) == Recorded(p) = Absent

AppliedMeanwhile(p) ==
  /\ op[p].at = "apply" /\ ~ StillPending(p)
  /\ NextVersion(p)
  /\ UNCHANGED <<ledger, tables>>

\* The body and its row.  The row's key is unique: a second one rolls all back.
Apply(p) ==
  /\ op[p].at = "apply" /\ StillPending(p)
  /\ IF Recorded(p) = Absent
     THEN /\ ledger' = [ledger EXCEPT ![op[p].v] = Mine(p)]
          /\ tables' = [tables EXCEPT ![op[p].v] = SchemaOf[Mine(p)]]
          /\ NextVersion(p)
     ELSE Fail(p, "duplicate row") /\ UNCHANGED <<ledger, tables>>

\* What the reconcile SQL of an old body makes of the tables.
\* Mutant: the checksum is stamped and the tables are left as they are.
HealedTables_Stamped(p) == tables
HealedTables(p) == [tables EXCEPT ![op[p].v] = SchemaOf[Superseded[op[p].prev]]]

\* The reconcile of a known old body and the new stamp, in one deferred
\* transaction.  A rename finds the old columns or fails.
Heal(p) ==
  /\ op[p].at = "heal"
  /\ IF tables[op[p].v] = SchemaOf[op[p].prev]
     THEN /\ tables' = HealedTables(p)
          /\ ledger' = [ledger EXCEPT ![op[p].v] = Mine(p)]
          /\ NextVersion(p)
     ELSE Fail(p, "no such column") /\ UNCHANGED <<ledger, tables>>

\* The write lock stayed taken for longer than busy_timeout.
LockTimesOut(p) ==
  /\ op[p].at \in {"apply", "heal"}
  /\ Fail(p, "busy")
  /\ UNCHANGED <<ledger, tables>>

EndOpen(p) ==
  /\ op[p].at = "check" /\ op[p].v \notin Versions
  /\ op' = [op EXCEPT ![p] = [Closed EXCEPT !.at = "open"]]
  /\ UNCHANGED <<ledger, tables>>

\* The process dies; whatever transaction it was in is rolled back.
DieOpening(p) ==
  /\ op[p].at \notin {"closed", "failed"}
  /\ op' = [op EXCEPT ![p] = Closed]
  /\ UNCHANGED <<ledger, tables>>

\* The steps that leave the contents of the tables alone.
LookUp(p) ==
  \/ BeginOpen(p) \/ Verified(p) \/ Pending(p) \/ IsSuperseded(p)
  \/ Mismatch(p) \/ AppliedMeanwhile(p) \/ Heal(p) \/ LockTimesOut(p) \/ EndOpen(p)

-----------------------------------------------------------------------------
MigrationTypeOK ==
  /\ ledger \in [Versions -> Bodies \cup {Absent}]
  /\ op \in [Openers -> [at : {"closed", "check", "apply", "heal", "open", "failed"},
                         v : 0 .. LastVersion + 1, prev : Bodies \cup {Absent},
                         why : {"none", "mismatch", "duplicate row", "no such column", "busy"}]]

\* Where every running release has one migration list, a process that got
\* through migrate has the tables that its code was written for and a ledger
\* that says so, whatever it found on disk, whoever opened at the same time and
\* whoever died halfway (Db::open's callers use the connection unchecked).
OpenedIsCurrent ==
  \A p \in Openers : Opened(p) =>
    /\ ledger = Embeds[p]
    /\ tables = TablesOf(Embeds[p])

\* Openers do not run into each other (the claim of the test
\* concurrent_migrations_on_the_same_db_do_not_race): the lookup outside the
\* transaction never ends in a second row for a version.
OpenersDoNotCollide ==
  \A p \in Openers : op[p].why # "duplicate row"

\* A registered heal never turns an opener away: migrate.rs:57 calls its SQL
\* idempotent.  It is a rename, and two openers may both decide to run it.
HealIsIdempotent ==
  \A p \in Openers : op[p].why # "no such column"

\* A process never opens over a body other than its own (migrate.rs:11: a
\* recorded checksum that differs is an error), with two releases running.
OpenedIsVerified ==
  \A p \in Openers : op[p].at = "open" => \A v \in Versions : ledger[v] = Embeds[p][v]
=============================================================================
