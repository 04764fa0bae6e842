------------------------------ MODULE SysTables ------------------------------
(***************************************************************************)
(* The configuration tables under /sys (qfs/src/sys.rs, path_binding.rs),  *)
(* the statements that write them, and what the replayable log             *)
(* (sys_ddl_events) keeps of a write: not the row but its payload, in      *)
(* which secrets are redacted and a removal names less than it may delete. *)
(*                                                                         *)
(* A key is a table and the name its statements address rows by.  Names    *)
(* are unique but in sys_policies, so a key has a sequence of rows.        *)
(***************************************************************************)
EXTENDS Naturals, Sequences

CONSTANTS
  Policies,    \* names of sys_policies, a table without a unique key
  Settings,    \* keys of sys_settings
  Secret,      \* the settings with a secret's name
  Teams,       \* teams of billing_subscriptions
  Paths,       \* paths of path_binding
  Declared,    \* declarations of sys_drivers: a kind, a name and a verb
  KindOf,      \* Declared -> kinds, "driver" one of them
  NameOf,      \* Declared -> names
  Values,      \* what rows and payloads hold
  RowsOf,      \* keys -> the values a statement may write there
  AliasOf,     \* Values -> the path a binding is an alias of, or Absent
  LogText,     \* keys -> Values -> what the payload shows of a value
  Deliveries,  \* ids of the billing provider's events
  TeamOf,      \* Deliveries -> Teams
  StatusOf,    \* Deliveries -> Values
  Absent       \* none

Keys == Policies \cup Settings \cup Teams \cup Paths \cup Declared

ASSUME SysConstants ==
  /\ Declared \cap Paths = {}
  /\ RowsOf \in [Keys -> SUBSET Values]
  /\ AliasOf \in [Values -> Paths \cup {Absent}]
  /\ LogText \in [Keys -> [Values -> Values]]
  /\ \A k \in Paths, v \in Values : AliasOf[LogText[k][v]] = AliasOf[v]
  /\ TeamOf \in [Deliveries -> Teams]
  /\ \A d \in Deliveries : StatusOf[d] \in RowsOf[TeamOf[d]]
  /\ Absent \notin Values \cup Deliveries \cup Keys

-----------------------------------------------------------------------------
(* The tables. *)

Tables == [Keys -> Seq(Values)]
NoRows == [k \in Keys |-> << >>]
Present(t, k) == t[k] # << >>

\* A table whose INSERT adds a row whatever is there.
Adds == Policies \cup Declared

\* Deleting a binding deletes its aliases, and theirs: alias_of references the
\* table itself, ON DELETE CASCADE.
AliasClosed(t, S) ==
  \A k \in Paths : Present(t, k) /\ AliasOf[t[k][1]] \in S => k \in S
Dropped(t, ks) ==
  ks \cup {k \in Paths : \A S \in SUBSET Paths :
                            ks \cap Paths \subseteq S /\ AliasClosed(t, S) => k \in S}

\* The tables after a statement with that verb on those keys, and after a write.
Applied(t, verb, ks, v) ==
  LET gone == IF verb = "REMOVE" THEN Dropped(t, ks) ELSE {}
  IN  [k \in Keys |->
     CASE verb = "INSERT" /\ k \in ks /\ k \in Adds -> Append(t[k], v)
       [] verb = "INSERT" /\ k \in ks /\ k \notin Adds -> << v >>
       [] verb = "UPSERT" /\ k \in ks -> << v >>
       [] verb = "UPDATE" /\ k \in ks -> [i \in DOMAIN t[k] |-> v]
       [] k \in gone -> << >>
       [] OTHER -> t[k]]
Written(t, w) == Applied(t, w.verb, w.acts, w.val)

-----------------------------------------------------------------------------
(* A write: its verb, the keys its statement acts on and those its payload *)
(* names, the value and what the payload shows of it, and the delivery it  *)
(* applies, if any.                                                        *)

Put(verb, k, v) ==
  [verb |-> verb, acts |-> {k}, told |-> {k}, val |-> v, text |-> LogText[k][v],
   by |-> Absent]
Remove(acts, told) ==
  [verb |-> "REMOVE", acts |-> acts, told |-> told, val |-> Absent, text |-> Absent,
   by |-> Absent]

Of(kind, name) == {k \in Declared : KindOf[k] = kind /\ NameOf[k] = name}

\* remove_driver deletes every declaration of a name and logs the payload of
\* remove_declaration for the driver of that name.
RemoveDriver(name) ==
  Remove({k \in Declared : NameOf[k] = name}, Of("driver", name))

\* insert_driver deletes the superseded row first, and logs that only if one
\* was there.
Declare(t, k, v) ==
  IF Present(t, k) THEN <<Remove({k}, {k}), Put("INSERT", k, v)>>
  ELSE <<Put("INSERT", k, v)>>

\* An alias needs its target; the foreign key is checked after the upsert.
Bindable(t, k, v) == AliasOf[v] \in {Absent, k} \/ Present(t, AliasOf[v])

\* apply_provider_event: the upsert of a team's plan, under the delivery's id.
Bill(d) == [Put("UPSERT", TeamOf[d], StatusOf[d]) EXCEPT !.by = d]

\* Mutant: a redelivered event is applied again.
Undelivered_All(done) == Deliveries
Undelivered(done) == Deliveries \ done

Puts(verb, S) == UNION {{Put(verb, k, v) : v \in RowsOf[k]} : k \in S}
Alone(ws) == {<<w>> : w \in ws}
Binds(t, k) == {<<Put("INSERT", k, v)>> : v \in {x \in RowsOf[k] : Bindable(t, k, x)}}
Declares(t, k) == {Declare(t, k, v) : v \in RowsOf[k]}

\* The REMOVEs: remove_setting refuses a secret's name, remove_declaration
\* deletes what has a kind and a name, whatever its verb.
Removes ==
  {Remove({k}, {k}) : k \in Policies \cup (Settings \ Secret) \cup Paths}
  \cup {Remove(Of(KindOf[k], NameOf[k]), Of(KindOf[k], NameOf[k])) : k \in Declared}
  \cup {RemoveDriver(NameOf[k]) : k \in Declared}

\* The statements that can succeed on tables t, when the deliveries in done
\* were applied, each as the writes it makes.
Statements(t, done) ==
  Alone(Puts("INSERT", Policies) \cup Puts("UPDATE", Policies)
          \cup Puts("UPSERT", Settings \cup Teams) \cup Removes
          \cup {Bill(d) : d \in Undelivered(done)})
  \cup (UNION {Binds(t, k) : k \in Paths})
  \cup (UNION {Declares(t, k) : k \in Declared})

\* Every write there is.
Writes ==
  Puts("INSERT", Keys) \cup Puts("UPSERT", Keys) \cup Puts("UPDATE", Keys)
  \cup Removes
  \cup {Remove({k}, {k}) : k \in Declared}
  \cup {Bill(d) : d \in Deliveries}

-----------------------------------------------------------------------------
(* The log. *)

\* What sys_ddl_events keeps of a write.
Logged(w) == [verb |-> w.verb, told |-> w.told, text |-> w.text, by |-> w.by]
Entries == {Logged(w) : w \in Writes}

\* The tables as the payloads show them.
Shown(t) == [k \in Keys |-> [i \in DOMAIN t[k] |-> LogText[k][t[k][i]]]]

\* Running an entry again, and those of a log, in order, on empty tables.
Replayed(t, entry) == Applied(t, entry.verb, entry.told, entry.text)
Replay(log) ==
  LET after[n \in 0..Len(log)] ==
        IF n = 0 THEN NoRows ELSE Replayed(after[n - 1], log[n])
  IN  after[Len(log)]
=============================================================================
