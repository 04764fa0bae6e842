------------------------ MODULE ServerRuntime_proofs ------------------------
(***************************************************************************)
(* Proofs about ServerRuntime, for any rows and contents, and any finite   *)
(* number of requests at once.  The inductive invariant says what a        *)
(* re-emission that nobody overlaps can rely on, and what a boot has put   *)
(* together so far.                                                        *)
(***************************************************************************)
EXTENDS ServerRuntime, FiniteSetTheorems, TLAPS

-----------------------------------------------------------------------------
(* Requests, by where they are.                                            *)

Changes == [row : Rows, before : BOOLEAN, after : BOOLEAN]

IdleRequest  == [at : {"idle"}]
ApplyRequest == [at : {"apply"}, op : Ops, row : Rows, def : Defs \cup {None}]
NotifyRequest == [at : {"notify"}, change : Changes, solo : BOOLEAN]
BareRequest  == [at : {"snapshot", "rename"}, solo : BOOLEAN]
OpenRequest  == [at : {"open"}, doc : States, solo : BOOLEAN]
WriteRequest == [at : {"write"}, doc : States, fd : Inodes, solo : BOOLEAN]
Requests == IdleRequest \cup ApplyRequest \cup NotifyRequest \cup BareRequest
            \cup OpenRequest \cup WriteRequest

ReqOK == reqs \in [Clients -> Requests]
LogsOK == queue \in Seq(Changes) /\ ledger \in Seq(Changes) /\ applied \in Seq(Changes)

\* Before it serves, a process has no request, and the state is the part of the
\* document that was replayed, if the document reads back as it was meant.
ReplayedSoFar ==
  /\ stage \in {"down", "booting"} => \A c \in Clients : reqs[c] = Idle
  /\ stage = "booting" =>
       /\ queue = << >> /\ ledger = applied
       /\ disk[file] # Torn
       /\ Faithful(Document(disk[file])) =>
            server = [r \in Rows |-> IF r \in replayed THEN Document(disk[file])[r] ELSE None]

\* A re-emission nobody overlaps is the only one, writes the state as it is, and
\* finds under the temporary name the inode it opened.
SoloEmission ==
  \A c \in Clients : Emitting(c) /\ reqs[c].solo =>
    /\ \A d \in Clients \ {c} : ~ Emitting(d)
    /\ At(c, {"open", "write"}) => reqs[c].doc = server
    /\ At(c, {"write"}) => tmp = reqs[c].fd /\ disk[tmp] = Empty
    /\ At(c, {"rename"}) => tmp # None /\ disk[tmp] = server

\* A change of a serving process is in one of three places.
Carrying(ch) == {c \in Unnotified : reqs[c].change = ch}
EachOnce ==
  stage = "serving" =>
    \A ch \in Changes :
      Times(ch, ledger) + Times(ch, queue) + Cardinality(Carrying(ch)) = Times(ch, applied)

\* A stop that has begun was still within the bound.
StopCounts == stage \in {"drained", "stopped"} => stops < MaxStops

IInv ==
  /\ TypeOK /\ ReqOK /\ LogsOK /\ StopCounts /\ ReplayedSoFar /\ SoloEmission /\ EachOnce
  /\ BindingsFollow /\ FileIsWhole /\ FileIsState

-----------------------------------------------------------------------------
(* Requests and inodes.                                                    *)

EmitPlaces == {"notify", "snapshot", "open", "write", "rename"}

\* What a request at each place carries.
LEMMA Shapes ==
  ASSUME NEW q \in Requests
  PROVE  /\ q.at \in {"idle", "apply"} \cup EmitPlaces
         /\ q.at = "idle" => q = Idle
         /\ q.at = "apply" => q.op \in Ops /\ q.row \in Rows /\ q.def \in Defs \cup {None}
         /\ q.at \in EmitPlaces => q.solo \in BOOLEAN
         /\ q.at = "notify" => q.change \in Changes
         /\ q.at \in {"open", "write"} => q.doc \in States
         /\ q.at = "write" => q.fd \in Inodes
  BY DEF Requests, IdleRequest, ApplyRequest, NotifyRequest, BareRequest, OpenRequest,
         WriteRequest, EmitPlaces, Idle

\* A request that turns out to be overlapped keeps everything else.
LEMMA Overlapped ==
  ASSUME NEW q \in Requests, q.at \in EmitPlaces
  PROVE  LET u == [q EXCEPT !.solo = FALSE]
         IN  /\ u \in Requests /\ u.at = q.at /\ u.solo = FALSE
             /\ q.at = "notify" => u.change = q.change
  BY DEF Requests, IdleRequest, ApplyRequest, NotifyRequest, BareRequest, OpenRequest,
         WriteRequest, EmitPlaces

LEMMA ReqMoves ==
  ASSUME ReqOK, NEW c \in Clients, NEW q \in Requests, reqs' = [reqs EXCEPT ![c] = q]
  PROVE  ReqOK' /\ reqs'[c] = q /\ \A d \in Clients \ {c} : reqs'[d] = reqs[d]
  BY DEF ReqOK

LEMMA InodeFacts ==
  /\ Cardinality(Clients) \in Nat
  /\ Inodes \subseteq Nat /\ 0 \in Inodes /\ None \notin Inodes
  /\ IsFiniteSet(Inodes) /\ Cardinality(Inodes) = Cardinality(Clients) + 2
  <1>1. Cardinality(Clients) \in Nat
    BY ClientsAssumption, FS_CardinalityType
  <1>2. IsFiniteSet(Inodes) /\ Cardinality(Inodes) = Cardinality(Clients) + 2
    BY <1>1, FS_Interval DEF Inodes
  <1>3. QED
    BY <1>1, <1>2, NamesAssumption DEF Inodes

\* There is always an inode nothing holds: at most one per client is held by a
\* descriptor, and the config file is one more.
LEMMA FreeInodeFacts ==
  ASSUME TypeOK, ReqOK, tmp = None, NEW c \in Clients, At(c, {"open"})
  PROVE  FreeInode \in Inodes /\ ~ Held(FreeInode)
  <1> DEFINE W == {d \in Clients : At(d, {"write"})}
             F == {reqs[d].fd : d \in W}
             f == [d \in W |-> reqs[d].fd]
             Taken == F \cup {file}
  <1>1. IsFiniteSet(W) /\ Cardinality(W) <= Cardinality(Clients)
    BY ClientsAssumption, FS_Subset
  <1>2. f \in Surjection(W, F)
    BY DEF Surjection
  <1>3. IsFiniteSet(F) /\ Cardinality(F) <= Cardinality(W)
    BY <1>1, <1>2, FS_Surjection
  <1>4. IsFiniteSet(Taken) /\ Cardinality(Taken) <= Cardinality(F) + 1
    <2>1. Cardinality(F) \in Nat
      BY <1>3, FS_CardinalityType
    <2> HIDE DEF F
    <2>2. /\ IsFiniteSet(F \cup {file})
          /\ Cardinality(F \cup {file}) = IF file \in F THEN Cardinality(F) ELSE Cardinality(F) + 1
      BY <1>3, FS_AddElement
    <2>3. QED
      BY <2>1, <2>2
  <1>5. \A i \in Inodes : Held(i) <=> i \in Taken
    BY InodeFacts DEF Held
  <1> HIDE DEF W, F, Taken
  <1>6. ~ (Inodes \subseteq Taken)
    <2>1. /\ Cardinality(Taken) \in Nat /\ Cardinality(F) \in Nat /\ Cardinality(W) \in Nat
      BY <1>1, <1>3, <1>4, FS_CardinalityType
    <2>2. Inodes \subseteq Taken => Cardinality(Inodes) <= Cardinality(Taken)
      BY <1>4, FS_Subset
    <2>3. QED
      BY <1>1, <1>3, <1>4, <2>1, <2>2, InodeFacts
  <1> DEFINE Free == {i \in Inodes : ~ Held(i)}
             Less == {ss \in Nat \X Nat : ss[1] < ss[2]}
  <1>7. Free # {} /\ Free \subseteq Nat
    BY <1>5, <1>6, InodeFacts
  <1>8. IsWellFoundedOn(Less, Nat)
    BY NatLessThanWellFounded DEF OpToRel
  <1>9. PICK i \in Free : \A j \in Free : <<j, i>> \notin Less
    <2> HIDE DEF Less, Free
    <2> QED
      BY <1>7, <1>8, WFMin
  <1>10. ASSUME NEW j \in Inodes, j < i PROVE Held(j)
    <2>1. i \in Nat /\ j \in Nat
      BY <1>7, InodeFacts
    <2>2. <<j, i>> \in Less
      BY <2>1, <1>10
    <2>3. QED
      BY <1>9, <2>2
  <1>11. i \in Inodes /\ ~ Held(i) /\ \A j \in Inodes : j < i => Held(j)
    BY <1>9, <1>10
  <1>12. QED
    BY <1>11 DEF FreeInode

-----------------------------------------------------------------------------
LEMMA InitIInv == Init => IInv
  <1> SUFFICES ASSUME Init PROVE IInv
    OBVIOUS
  <1>1. /\ Nowhere \in States /\ \A def \in Defs : [Nowhere EXCEPT ![Grant] = def] \in States
        /\ Idle \in Requests /\ Idle.at = "idle"
    BY DEF Nowhere, States, Idle, Requests, IdleRequest
  <1>2. stage = "down" /\ file = 0 /\ tmp = None /\ \A c \in Clients : reqs[c] = Idle
    BY DEF Init
  <1>3. /\ disk \in [Inodes -> States \cup {Empty, Torn}] /\ disk[0] \in States
    BY <1>1, InodeFacts DEF Init
  <1>4. TypeOK
    BY <1>1, <1>2, <1>3, InodeFacts, BoundsAssumption DEF Init, TypeOK
  <1>5. ReqOK /\ LogsOK /\ StopCounts
    BY <1>1 DEF Init, ReqOK, LogsOK, StopCounts
  <1>6. ReplayedSoFar /\ SoloEmission /\ EachOnce /\ BindingsFollow /\ FileIsState
    BY <1>1, <1>2 DEF ReplayedSoFar, SoloEmission, EachOnce, BindingsFollow, FileIsState, Emitting, At
  <1>7. FileIsWhole
    BY <1>2, <1>3 DEF FileIsWhole
  <1>8. QED
    BY <1>4, <1>5, <1>6, <1>7 DEF IInv

-----------------------------------------------------------------------------
(* Types.                                                                  *)

LEMMA RowFacts ==
  /\ Nowhere \in States
  /\ \A content \in States \cup {Empty} : Document(content) \in States
  /\ \A content \in States : Document(content) = content
  BY NamesAssumption DEF Nowhere, States, Document

LEMMA WriteFacts ==
  ASSUME TypeOK, NEW r \in Rows, NEW def \in Defs \cup {None}
  PROVE  Written(r, def) \in States /\ Change(r, def) \in Changes
  BY DEF TypeOK, Written, Change, Changes, States

\* What a boot makes of a statement that it does not refuse.
LEMMA ReplayedFacts ==
  ASSUME TypeOK, NEW r \in Pending, disk[file] # Torn
  PROVE  /\ Statement(r) \in Statements \cup {None}
         /\ Statement(r) # None => Statement(r).row \in Rows /\ Statement(r).def \in Defs
         /\ Faithful(Document(disk[file])) =>
              Statement(r).row = r /\ Statement(r).def = Document(disk[file])[r]
  <1> DEFINE doc == Document(disk[file])
  <1>1. doc \in States /\ r \in Rows /\ doc[r] # None
    BY RowFacts DEF Pending, TypeOK
  <1>2. doc[r] \in Defs /\ Statement(r) = ReadAs[r][doc[r]]
    BY <1>1 DEF States, Statement
  <1> HIDE DEF doc
  <1>3. Statement(r) \in Statements \cup {None}
    BY <1>1, <1>2, ReadAsAssumption
  <1>4. Faithful(doc) => Statement(r) = [row |-> r, def |-> doc[r]]
    BY <1>1, <1>2 DEF Faithful, ReadsBack
  <1>5. QED
    BY <1>3, <1>4 DEF Statements, doc

\* What the steps of a re-emission do to the request that makes them, and to
\* nobody else's.
Others(c) == \A d \in Clients \ {c} : reqs'[d] = reqs[d]

LEMMA NotifyFacts ==
  ASSUME TypeOK, ReqOK, NEW c \in Clients, Notify(c)
  PROVE  /\ ReqOK' /\ Others(c) /\ reqs[c].at = "notify" /\ reqs[c].change \in Changes
         /\ reqs'[c].at = "snapshot" /\ reqs'[c].solo = reqs[c].solo
  <1> DEFINE q == [at |-> "snapshot", solo |-> reqs[c].solo]
  <1>1. reqs[c] \in Requests /\ reqs[c].at = "notify" /\ reqs' = [reqs EXCEPT ![c] = q]
    BY DEF ReqOK, Notify, At
  <1>2. reqs[c].solo \in BOOLEAN /\ reqs[c].change \in Changes
    BY <1>1, Shapes DEF EmitPlaces
  <1>3. q \in Requests /\ q.at = "snapshot" /\ q.solo = reqs[c].solo
    BY <1>2 DEF Requests, BareRequest
  <1> HIDE DEF q
  <1>4. QED
    BY <1>1, <1>2, <1>3, ReqMoves DEF Others

LEMMA SnapshotFacts ==
  ASSUME TypeOK, ReqOK, NEW c \in Clients, Snapshot(c)
  PROVE  /\ ReqOK' /\ Others(c) /\ reqs[c].at = "snapshot"
         /\ reqs'[c].at = "open" /\ reqs'[c].solo = reqs[c].solo /\ reqs'[c].doc = server
  <1> DEFINE q == [at |-> "open", doc |-> server, solo |-> reqs[c].solo]
  <1>1. reqs[c] \in Requests /\ reqs[c].at = "snapshot" /\ reqs' = [reqs EXCEPT ![c] = q]
    BY DEF ReqOK, Snapshot, EmittedState, At
  <1>2. reqs[c].solo \in BOOLEAN /\ server \in States
    BY <1>1, Shapes DEF EmitPlaces, TypeOK
  <1>3. q \in Requests /\ q.at = "open" /\ q.solo = reqs[c].solo /\ q.doc = server
    BY <1>2 DEF Requests, OpenRequest
  <1> HIDE DEF q
  <1>4. QED
    BY <1>1, <1>3, ReqMoves DEF Others

LEMMA OpenFacts ==
  ASSUME TypeOK, ReqOK, NEW c \in Clients, OpenTmp(c)
  PROVE  /\ ReqOK' /\ Others(c) /\ reqs[c].at = "open"
         /\ reqs'[c].at = "write" /\ reqs'[c].solo = reqs[c].solo
         /\ reqs'[c].doc = reqs[c].doc /\ reqs'[c].fd = tmp'
         /\ tmp' \in Inodes /\ tmp' # file
         /\ disk' = [disk EXCEPT ![tmp'] = Empty]
  <1> DEFINE i == IF tmp = None THEN FreeInode ELSE tmp
             q == [at |-> "write", doc |-> reqs[c].doc, fd |-> i, solo |-> reqs[c].solo]
  <1>1. /\ reqs[c] \in Requests /\ reqs[c].at = "open" /\ reqs' = [reqs EXCEPT ![c] = q]
        /\ tmp' = i /\ disk' = [disk EXCEPT ![i] = Empty]
    BY DEF ReqOK, OpenTmp, OpenPath, At
  <1>2. reqs[c].solo \in BOOLEAN /\ reqs[c].doc \in States
    BY <1>1, Shapes DEF EmitPlaces
  <1>3. i \in Inodes /\ i # file
    <2>1. CASE tmp = None
      <3>1. FreeInode \in Inodes /\ ~ Held(FreeInode)
        BY <2>1, FreeInodeFacts DEF OpenTmp
      <3>2. QED
        BY <2>1, <3>1 DEF Held
    <2>2. CASE tmp # None
      BY <2>2 DEF TypeOK
    <2>3. QED
      BY <2>1, <2>2
  <1> HIDE DEF i
  <1>4. /\ q \in Requests /\ q.at = "write" /\ q.solo = reqs[c].solo /\ q.doc = reqs[c].doc
        /\ q.fd = i
    BY <1>2, <1>3 DEF Requests, WriteRequest
  <1> HIDE DEF q
  <1>5. QED
    BY <1>1, <1>3, <1>4, ReqMoves DEF Others

LEMMA WriteTmpFacts ==
  ASSUME TypeOK, ReqOK, NEW c \in Clients, WriteTmp(c)
  PROVE  /\ ReqOK' /\ Others(c) /\ reqs[c].at = "write"
         /\ reqs[c].fd \in Inodes /\ reqs[c].doc \in States
         /\ reqs'[c].at = "rename" /\ reqs'[c].solo = reqs[c].solo
         /\ \E content \in Overwritten(disk[reqs[c].fd], reqs[c].doc) :
              disk' = [disk EXCEPT ![reqs[c].fd] = content]
  <1> DEFINE q == [at |-> "rename", solo |-> reqs[c].solo]
  <1>1. /\ reqs[c] \in Requests /\ reqs[c].at = "write" /\ reqs' = [reqs EXCEPT ![c] = q]
        /\ \E content \in Overwritten(disk[reqs[c].fd], reqs[c].doc) :
             disk' = [disk EXCEPT ![reqs[c].fd] = content]
    BY DEF ReqOK, WriteTmp, At
  <1>2. reqs[c].solo \in BOOLEAN /\ reqs[c].fd \in Inodes /\ reqs[c].doc \in States
    BY <1>1, Shapes DEF EmitPlaces
  <1>3. q \in Requests /\ q.at = "rename" /\ q.solo = reqs[c].solo
    BY <1>2 DEF Requests, BareRequest
  <1> HIDE DEF q
  <1>4. QED
    BY <1>1, <1>2, <1>3, ReqMoves DEF Others

LEMMA AnswerFacts ==
  ASSUME ReqOK, NEW c \in Clients, Answer(c)
  PROVE  ReqOK' /\ Others(c) /\ reqs'[c] = Idle /\ Idle.at = "idle"
  <1>1. Idle \in Requests /\ Idle.at = "idle"
    BY DEF Idle, Requests, IdleRequest
  <1>2. QED
    BY <1>1, ReqMoves DEF Answer, Others

LEMMA GateFacts ==
  ASSUME ReqOK, NEW c \in Clients, NEW op \in Ops, NEW r \in Rows,
         NEW def \in Defs \cup {None}, Gate(c, op, r, def)
  PROVE  ReqOK' /\ Others(c) /\ reqs[c].at = "idle" /\ reqs'[c].at \in {"idle", "apply"}
  <1> DEFINE q == IF server[Grant] = None THEN Idle
                  ELSE [at |-> "apply", op |-> op, row |-> r, def |-> def]
  <1>1. reqs[c].at = "idle" /\ reqs' = [reqs EXCEPT ![c] = q]
    BY DEF Gate, At
  <1>2. q \in Requests /\ q.at \in {"idle", "apply"}
    BY DEF Idle, Requests, IdleRequest, ApplyRequest
  <1> HIDE DEF q
  <1>3. QED
    BY <1>1, <1>2, ReqMoves DEF Others

\* The write that makes an emission of its request, and of every other emission
\* under way an overlapped one.
LEMMA ApplyFacts ==
  ASSUME TypeOK, ReqOK, NEW c \in Clients, ApplyWrite(c)
  PROVE  /\ ReqOK' /\ reqs[c].at = "apply"
         /\ reqs[c].row \in Rows /\ reqs[c].def \in Defs \cup {None}
         /\ reqs'[c].at = "notify"
         /\ reqs'[c].change = Change(reqs[c].row, reqs[c].def)
         /\ reqs'[c].solo = \A e \in Clients \ {c} : ~ Emitting(e)
         /\ \A d \in Clients \ {c} :
              IF Emitting(d) THEN /\ reqs'[d].at = reqs[d].at /\ reqs'[d].solo = FALSE
                                  /\ reqs[d].at = "notify" => reqs'[d].change = reqs[d].change
                             ELSE reqs'[d] = reqs[d]
  <1> DEFINE alone == \A e \in Clients \ {c} : ~ Emitting(e)
             change == Change(reqs[c].row, reqs[c].def)
             q == [at |-> "notify", change |-> change, solo |-> alone]
  <1>1. \A d \in Clients : reqs[d] \in Requests
    BY DEF ReqOK
  <1>2. reqs[c].at = "apply"
    BY DEF ApplyWrite, At
  <1>3. reqs[c].row \in Rows /\ reqs[c].def \in Defs \cup {None}
    BY <1>1, <1>2, Shapes
  <1>4. change \in Changes /\ alone \in BOOLEAN
    BY <1>3, WriteFacts
  <1>5. reqs' = [d \in Clients |-> IF d = c THEN q
                                  ELSE IF Emitting(d) THEN [reqs[d] EXCEPT !.solo = FALSE]
                                  ELSE reqs[d]]
    BY DEF ApplyWrite
  <1> HIDE DEF change, alone
  <1>6. q \in Requests /\ q.at = "notify" /\ q.change = change /\ q.solo = alone
    BY <1>4 DEF Requests, NotifyRequest
  <1> HIDE DEF q
  <1>7. ASSUME NEW d \in Clients \ {c}, Emitting(d)
        PROVE  /\ reqs'[d] \in Requests /\ reqs'[d].at = reqs[d].at /\ reqs'[d].solo = FALSE
               /\ reqs[d].at = "notify" => reqs'[d].change = reqs[d].change
    <2>1. reqs'[d] = [reqs[d] EXCEPT !.solo = FALSE]
      BY <1>5, <1>7
    <2>2. reqs[d] \in Requests /\ reqs[d].at \in EmitPlaces
      BY <1>1, <1>7 DEF Emitting, At, EmitPlaces
    <2>3. QED
      BY <2>1, <2>2, Overlapped
  <1>8. \A d \in Clients \ {c} : ~ Emitting(d) => reqs'[d] = reqs[d]
    BY <1>5
  <1>9. ReqOK'
    <2>1. \A d \in Clients : reqs'[d] \in Requests
      BY <1>1, <1>5, <1>6, <1>7, <1>8
    <2>2. reqs' = [d \in Clients |-> reqs'[d]]
      BY <1>5
    <2>3. QED
      BY <2>1, <2>2 DEF ReqOK
  <1>10. reqs'[c] = q
    BY <1>5
  <1>11. QED
    BY <1>2, <1>3, <1>6, <1>7, <1>8, <1>9, <1>10 DEF change, alone

LEMMA GoneFacts ==
  ASSUME TypeOK, ReqOK, stops < MaxStops, Gone
  PROVE  TypeOK' /\ ReqOK' /\ \A c \in Clients : reqs'[c] = Idle
  <1>1. Idle \in Requests /\ Idle.at = "idle"
    BY DEF Idle, Requests, IdleRequest
  <1>2. stops + 1 \in 0 .. MaxStops
    BY BoundsAssumption DEF TypeOK
  <1>3. reqs' = [c \in Clients |-> Idle] /\ tmp' = None /\ file' = file /\ file \in Inodes
    BY DEF Gone, TypeOK
  <1>4. UNCHANGED <<stateVars, disk, replayed, commits>> /\ stage' = "down" /\ stops' = stops + 1
        /\ saved' \in {"overlapped", saved}
    BY DEF Gone
  <1>5. QED
    BY <1>1, <1>2, <1>3, <1>4, InodeFacts DEF TypeOK, ReqOK, stateVars

LEMMA TypeStep ==
  ASSUME TypeOK, ReqOK, LogsOK, StopCounts, ReplayedSoFar, [Next]_vars
  PROVE  TypeOK' /\ ReqOK' /\ LogsOK' /\ StopCounts'
  <1> USE DEF stateVars, auditVars, diskVars, procVars
  <1>1. \A c \in Clients : reqs[c] \in Requests
    BY DEF ReqOK
  <1>2. ASSUME ReqOK', stage' \in {"down", "booting", "serving", "drained", "stopped"},
               server' \in States, live' \in States, replayed' \subseteq Rows,
               disk' \in [Inodes -> States \cup {Empty, Torn}],
               file' \in Inodes, tmp' \in Inodes \cup {None}, tmp' # file',
               saved' \in {"yes", "overlapped", "failed", "misread"},
               commits' \in 0 .. MaxCommits, stops' \in 0 .. MaxStops
        PROVE  TypeOK'
    <2>1. \A c \in Clients : reqs'[c] \in Requests
      BY <1>2 DEF ReqOK
    <2>2. \A c \in Clients :
             reqs'[c].at \in {"idle", "apply", "notify", "snapshot", "open", "write", "rename"}
      BY <2>1, Shapes DEF EmitPlaces
    <2>3. QED
      BY <1>2, <2>2 DEF TypeOK
  <1>3. ASSUME UNCHANGED reqs PROVE ReqOK'
    BY <1>3 DEF ReqOK
  <1>4. /\ << >> \in Seq(Changes)
        /\ \A q \in Seq(Changes), ch \in Changes : Append(q, ch) \in Seq(Changes)
        /\ \A q \in Seq(Changes) : q # << >> => Tail(q) \in Seq(Changes) /\ Head(q) \in Changes
    OBVIOUS
  <1>5. CASE StartProcess
    BY <1>2, <1>3, <1>4, <1>5, RowFacts DEF StartProcess, TypeOK, LogsOK, StopCounts
  <1>6. ASSUME NEW r \in Rows, ReplayStatement(r) PROVE TypeOK' /\ ReqOK' /\ LogsOK' /\ StopCounts'
    <2>1. disk[file] # Torn
      BY <1>6 DEF ReplayStatement, ReplayedSoFar
    <2> DEFINE row == Statement(r).row
               def == Statement(r).def
    <2>2. row \in Rows /\ def \in Defs \cup {None}
      BY <1>6, <2>1, ReplayedFacts DEF ReplayStatement
    <2>3. Written(row, def) \in States /\ Change(row, def) \in Changes
      BY <2>2, WriteFacts
    <2>4. /\ stage = "booting" /\ server' = Written(row, def) /\ live' = server'
          /\ ledger' = Append(ledger, Change(row, def))
          /\ applied' = Append(applied, Change(row, def))
          /\ replayed' = replayed \cup {r}
          /\ UNCHANGED <<stage, stops, queue, diskVars, reqs, commits, saved>>
      BY <1>6 DEF ReplayStatement
    <2> HIDE DEF row, def
    <2>5. QED
      BY <1>2, <1>3, <1>4, <2>3, <2>4 DEF TypeOK, LogsOK, StopCounts
  <1>7. CASE Serve
    <2>1. saved' \in {"yes", "overlapped", "failed", "misread"}
      BY <1>7 DEF Serve, TypeOK
    <2>2. QED
      BY <1>2, <1>3, <1>7, <2>1 DEF Serve, TypeOK, LogsOK, StopCounts
  <1>15. ASSUME NEW r \in Rows, BootFails(r) PROVE TypeOK' /\ ReqOK' /\ LogsOK' /\ StopCounts'
    BY <1>2, <1>3, <1>15 DEF BootFails, TypeOK, LogsOK, StopCounts
  <1>8. ASSUME NEW c \in Clients, Request(c) PROVE TypeOK' /\ ReqOK' /\ LogsOK' /\ StopCounts'
    <2>1. ASSUME NEW op \in Ops, NEW r \in Rows, NEW def \in Defs \cup {None}, Gate(c, op, r, def)
          PROVE  TypeOK' /\ ReqOK' /\ LogsOK' /\ StopCounts'
      <3>1. ReqOK'
        BY <2>1, GateFacts
      <3>2. commits' \in 0 .. MaxCommits
        BY <2>1, BoundsAssumption DEF Gate, TypeOK
      <3>3. QED
        BY <1>2, <2>1, <3>1, <3>2 DEF Gate, TypeOK, LogsOK, StopCounts
    <2>2. CASE ApplyRefused(c)
      BY <1>2, <2>2, AnswerFacts DEF ApplyRefused, TypeOK, LogsOK, StopCounts
    <2>3. CASE ApplyWrite(c)
      <3> DEFINE row == reqs[c].row
                 def == reqs[c].def
      <3>1. ReqOK' /\ row \in Rows /\ def \in Defs \cup {None}
        BY <2>3, ApplyFacts
      <3>2. Written(row, def) \in States /\ Change(row, def) \in Changes
        BY <3>1, WriteFacts
      <3>3. /\ server' = Written(row, def) /\ applied' = Append(applied, Change(row, def))
            /\ UNCHANGED <<live, queue, ledger, diskVars, procVars, commits, saved>>
        BY <2>3 DEF ApplyWrite
      <3> HIDE DEF row, def
      <3>4. QED
        BY <1>2, <1>4, <3>1, <3>2, <3>3 DEF TypeOK, LogsOK, StopCounts
    <2>4. CASE Notify(c)
      <3>1. ReqOK' /\ reqs[c].change \in Changes
        BY <2>4, NotifyFacts
      <3>2. queue' \in Seq(Changes)
        BY <1>4, <2>4, <3>1 DEF Notify, LogsOK
      <3>3. QED
        BY <1>2, <2>4, <3>1, <3>2 DEF Notify, TypeOK, LogsOK, StopCounts
    <2>5. CASE Snapshot(c)
      BY <1>2, <2>5, SnapshotFacts DEF Snapshot, TypeOK, LogsOK, StopCounts
    <2>6. CASE OpenTmp(c)
      <3>1. /\ ReqOK' /\ tmp' \in Inodes /\ tmp' # file
            /\ disk' = [disk EXCEPT ![tmp'] = Empty]
        BY <2>6, OpenFacts
      <3>2. disk' \in [Inodes -> States \cup {Empty, Torn}]
        BY <3>1 DEF TypeOK
      <3>3. QED
        BY <1>2, <2>6, <3>1, <3>2 DEF OpenTmp, TypeOK, LogsOK, StopCounts
    <2>7. CASE WriteTmp(c)
      <3>1. disk' \in [Inodes -> States \cup {Empty, Torn}]
        BY <2>7, WriteTmpFacts DEF Overwritten, TypeOK
      <3>2. QED
        BY <1>2, <2>7, <3>1, WriteTmpFacts DEF WriteTmp, TypeOK, LogsOK, StopCounts
    <2>8. CASE Rename(c)
      <3>1. ReqOK' /\ file' \in Inodes /\ tmp' \in Inodes \cup {None} /\ tmp' # file'
        BY <2>8, AnswerFacts, InodeFacts DEF Rename, TypeOK
      <3>2. QED
        BY <1>2, <2>8, <3>1 DEF Rename, TypeOK, LogsOK, StopCounts
    <2>9. CASE EmitFails(c)
      BY <1>2, <2>9, AnswerFacts DEF EmitFails, TypeOK, LogsOK, StopCounts
    <2>10. QED
      BY <1>8, <2>1, <2>2, <2>3, <2>4, <2>5, <2>6, <2>7, <2>8, <2>9 DEF Request
  <1>9. CASE HandleReconfigure
    BY <1>2, <1>3, <1>4, <1>9 DEF HandleReconfigure, Left, Reconciled, TypeOK, LogsOK, StopCounts
  <1>10. CASE ShutDown
    BY <1>2, <1>3, <1>4, <1>10 DEF ShutDown, TypeOK, LogsOK, StopCounts
  <1>11. CASE StopListener
    BY <1>2, <1>3, <1>11 DEF StopListener, TypeOK, LogsOK, StopCounts
  <1>12. CASE Exit \/ Crash
    <2>1. stops < MaxStops /\ Gone
      BY <1>12 DEF Exit, Crash, StopCounts
    <2>2. QED
      BY <2>1, GoneFacts DEF Gone, LogsOK, StopCounts
  <1>13. CASE UNCHANGED vars
    BY <1>3, <1>13 DEF vars, TypeOK, LogsOK, StopCounts
  <1>14. QED
    BY <1>5, <1>6, <1>7, <1>8, <1>9, <1>10, <1>11, <1>12, <1>13, <1>15 DEF Next

-----------------------------------------------------------------------------
(* A boot, and a re-emission nobody overlaps.                              *)

LEMMA BootStep ==
  ASSUME TypeOK, ReqOK, ReplayedSoFar, [Next]_vars
  PROVE  ReplayedSoFar'
  <1> USE DEF ReplayedSoFar, stateVars, auditVars, diskVars, procVars
  <1>1. CASE StartProcess
    BY <1>1 DEF StartProcess, Parses, Nowhere
  <1>2. ASSUME NEW r \in Rows, ReplayStatement(r) PROVE ReplayedSoFar'
    <2> DEFINE doc == Document(disk[file])
    <2>1. /\ stage = "booting" /\ server' = Written(Statement(r).row, Statement(r).def)
          /\ ledger' = applied'
          /\ replayed' = replayed \cup {r}
          /\ UNCHANGED <<stage, stops, queue, diskVars, reqs, commits, saved>>
      BY <1>2 DEF ReplayStatement
    <2>2. disk[file] # Torn /\ UNCHANGED <<disk, file>>
      BY <2>1
    <2>3. Faithful(doc) => Statement(r).row = r /\ Statement(r).def = doc[r]
      BY <1>2, <2>2, ReplayedFacts DEF ReplayStatement
    <2>4. Faithful(doc) => server = [x \in Rows |-> IF x \in replayed THEN doc[x] ELSE None]
      BY <2>1
    <2> HIDE DEF doc
    <2>5. Faithful(doc) => server' = [x \in Rows |-> IF x \in replayed' THEN doc[x] ELSE None]
      BY <2>1, <2>3, <2>4 DEF Written
    <2>6. Faithful(Document(disk'[file'])) =>
            server' = [x \in Rows |-> IF x \in replayed' THEN Document(disk'[file'])[x] ELSE None]
      BY <2>2, <2>5 DEF doc
    <2>7. QED
      BY <2>1, <2>2, <2>6 DEF Faithful, ReadsBack, Document
  <1>9. ASSUME NEW r \in Rows, BootFails(r) PROVE ReplayedSoFar'
    BY <1>9 DEF BootFails
  <1>3. CASE Serve
    BY <1>3 DEF Serve
  <1>4. ASSUME NEW c \in Clients, Request(c) PROVE ReplayedSoFar'
    <2>1. stage \notin {"down", "booting"}
      BY <1>4 DEF Request, Gate, ApplyRefused, ApplyWrite, Notify, Snapshot, OpenTmp, WriteTmp,
         Rename, EmitFails, Listening, Alive
    <2>2. stage' = stage
      BY <1>4 DEF Request, Gate, ApplyRefused, ApplyWrite, Notify, Snapshot, OpenTmp, WriteTmp,
         Rename, EmitFails
    <2>3. QED
      BY <2>1, <2>2
  <1>5. CASE HandleReconfigure \/ ShutDown \/ StopListener
    BY <1>5 DEF HandleReconfigure, ShutDown, StopListener
  <1>6. CASE Exit \/ Crash
    BY <1>6 DEF Exit, Crash, Gone
  <1>7. CASE UNCHANGED vars
    BY <1>7 DEF vars, Document, Faithful, ReadsBack
  <1>8. QED
    BY <1>1, <1>2, <1>3, <1>4, <1>5, <1>6, <1>7, <1>9 DEF Next

\* Nobody emits before the process serves.
LEMMA NoneEmitsAtBoot ==
  ASSUME ReplayedSoFar, stage \in {"down", "booting"}
  PROVE  \A c \in Clients : ~ Emitting(c)
  BY DEF ReplayedSoFar, Idle, Emitting, At

LEMMA SoloStep ==
  ASSUME TypeOK, ReqOK, ReplayedSoFar, SoloEmission, [Next]_vars
  PROVE  SoloEmission'
  <1> USE DEF stateVars, auditVars, diskVars, procVars
  <1>1. /\ \A c : Emitting(c) <=> reqs[c].at \in EmitPlaces
        /\ \A c : Emitting(c)' <=> reqs'[c].at \in EmitPlaces
    BY DEF Emitting, At, EmitPlaces
  <1>2. ASSUME UNCHANGED <<reqs, server, tmp, disk>> PROVE SoloEmission'
    BY <1>1, <1>2 DEF SoloEmission, At
  <1>3. ASSUME \A c \in Clients : ~ Emitting(c)' PROVE SoloEmission'
    BY <1>3 DEF SoloEmission
  <1>4. CASE StartProcess \/ Serve \/ \E r \in Rows : ReplayStatement(r) \/ BootFails(r)
    <2>1. stage \in {"down", "booting"} /\ reqs' = reqs
      BY <1>4 DEF StartProcess, Serve, ReplayStatement, BootFails
    <2>2. QED
      BY <1>1, <1>3, <2>1, NoneEmitsAtBoot
  <1>5. ASSUME NEW c \in Clients, Request(c) PROVE SoloEmission'
    <2>1. ASSUME NEW op \in Ops, NEW r \in Rows, NEW def \in Defs \cup {None}, Gate(c, op, r, def)
          PROVE  SoloEmission'
      <3>1. UNCHANGED <<server, tmp, disk>>
        BY <2>1 DEF Gate
      <3>2. Others(c) /\ reqs'[c].at \in {"idle", "apply"}
        BY <2>1, GateFacts
      <3>3. QED
        BY <1>1, <3>1, <3>2 DEF SoloEmission, Others, At, EmitPlaces
    <2>2. CASE ApplyRefused(c) \/ Rename(c) \/ EmitFails(c)
      <3>1. UNCHANGED <<server, disk>>
        BY <2>2 DEF ApplyRefused, Rename, EmitFails
      <3>2. Others(c) /\ reqs'[c].at = "idle"
        BY <2>2, AnswerFacts DEF ApplyRefused, Rename, EmitFails
      <3>3. UNCHANGED tmp \/ Emitting(c)
        BY <2>2 DEF ApplyRefused, Rename, EmitFails, Emitting, At
      <3>4. QED
        BY <1>1, <3>1, <3>2, <3>3 DEF SoloEmission, Others, At, EmitPlaces
    <2>3. CASE ApplyWrite(c)
      <3>1. /\ reqs[c].at = "apply" /\ reqs'[c].at = "notify"
            /\ reqs'[c].solo = \A e \in Clients \ {c} : ~ Emitting(e)
            /\ \A d \in Clients \ {c} :
                 IF Emitting(d) THEN reqs'[d].at = reqs[d].at /\ reqs'[d].solo = FALSE
                                ELSE reqs'[d] = reqs[d]
        BY <2>3, ApplyFacts
      <3> SUFFICES ASSUME NEW d \in Clients, Emitting(d)', reqs'[d].solo
                   PROVE  /\ \A e \in Clients \ {d} : ~ Emitting(e)'
                          /\ ~ At(d, {"open", "write"})' /\ ~ At(d, {"write"})'
                          /\ ~ At(d, {"rename"})'
        BY DEF SoloEmission
      <3>2. d = c
        BY <1>1, <3>1
      <3>3. \A e \in Clients \ {c} : ~ Emitting(e) /\ reqs'[e] = reqs[e]
        BY <3>1, <3>2
      <3>4. QED
        BY <1>1, <3>1, <3>2, <3>3 DEF At
    <2>4. ASSUME reqs[c].at \in EmitPlaces, Others(c), UNCHANGED server,
                 reqs'[c].at \in EmitPlaces, reqs'[c].solo = reqs[c].solo,
                 reqs[c].solo =>
                   /\ At(c, {"open", "write"})' => reqs'[c].doc = server'
                   /\ At(c, {"write"})' => tmp' = reqs'[c].fd /\ disk'[tmp'] = Empty
                   /\ At(c, {"rename"})' => tmp' # None /\ disk'[tmp'] = server'
          PROVE  SoloEmission'
      <3> SUFFICES ASSUME NEW d \in Clients, Emitting(d)', reqs'[d].solo
                   PROVE  /\ \A e \in Clients \ {d} : ~ Emitting(e)'
                          /\ At(d, {"open", "write"})' => reqs'[d].doc = server'
                          /\ At(d, {"write"})' => tmp' = reqs'[d].fd /\ disk'[tmp'] = Empty
                          /\ At(d, {"rename"})' => tmp' # None /\ disk'[tmp'] = server'
        BY DEF SoloEmission
      <3>1. d = c
        BY <1>1, <2>4 DEF SoloEmission, Others
      <3>2. \A e \in Clients \ {c} : ~ Emitting(e)
        BY <1>1, <2>4, <3>1 DEF SoloEmission
      <3>3. QED
        BY <1>1, <2>4, <3>1, <3>2 DEF Others
    <2>5. CASE Notify(c)
      BY <2>4, <2>5, NotifyFacts DEF Notify, At, EmitPlaces
    <2>6. CASE Snapshot(c)
      BY <2>4, <2>6, SnapshotFacts DEF Snapshot, At, EmitPlaces
    <2>7. CASE OpenTmp(c)
      <3>1. /\ Others(c) /\ reqs[c].at = "open" /\ reqs'[c].at = "write"
            /\ reqs'[c].solo = reqs[c].solo /\ reqs'[c].doc = reqs[c].doc /\ reqs'[c].fd = tmp'
            /\ tmp' \in Inodes /\ disk' = [disk EXCEPT ![tmp'] = Empty]
        BY <2>7, OpenFacts
      <3>2. disk'[tmp'] = Empty /\ UNCHANGED server
        BY <2>7, <3>1 DEF OpenTmp, TypeOK
      <3>3. reqs[c].solo => reqs[c].doc = server
        BY <1>1, <3>1 DEF SoloEmission, At, EmitPlaces
      <3>4. QED
        BY <2>4, <3>1, <3>2, <3>3 DEF At, EmitPlaces
    <2>8. CASE WriteTmp(c)
      <3>1. /\ Others(c) /\ reqs[c].at = "write" /\ reqs'[c].at = "rename"
            /\ reqs'[c].solo = reqs[c].solo /\ reqs[c].fd \in Inodes
        BY <2>8, WriteTmpFacts
      <3>2. UNCHANGED <<server, tmp>>
        BY <2>8 DEF WriteTmp
      <3>3. reqs[c].solo => reqs[c].doc = server /\ tmp = reqs[c].fd /\ disk[tmp] = Empty
        BY <1>1, <3>1 DEF SoloEmission, At, EmitPlaces
      <3>4. PICK content \in Overwritten(disk[reqs[c].fd], reqs[c].doc) :
                   disk' = [disk EXCEPT ![reqs[c].fd] = content]
        BY <2>8, WriteTmpFacts
      <3>5. reqs[c].solo => tmp # None /\ disk'[tmp] = server
        BY <3>1, <3>3, <3>4, InodeFacts DEF Overwritten, TypeOK
      <3>6. QED
        BY <2>4, <3>1, <3>2, <3>5 DEF At, EmitPlaces
    <2>9. QED
      BY <1>5, <2>1, <2>2, <2>3, <2>5, <2>6, <2>7, <2>8 DEF Request
  <1>6. CASE HandleReconfigure \/ ShutDown \/ StopListener
    BY <1>2, <1>6 DEF HandleReconfigure, ShutDown, StopListener
  <1>7. CASE Exit \/ Crash
    <2>1. \A c \in Clients : reqs'[c] = Idle
      BY <1>7 DEF Exit, Crash, Gone
    <2>2. QED
      BY <1>1, <1>3, <2>1 DEF Idle, EmitPlaces
  <1>8. CASE UNCHANGED vars
    BY <1>2, <1>8 DEF vars
  <1>9. QED
    BY <1>4, <1>5, <1>6, <1>7, <1>8 DEF Next

-----------------------------------------------------------------------------
(* The file.                                                               *)

\* A step of a re-emission, up to its rename, leaves the file the config path
\* names alone when nobody overlaps it.
LEMMA MovesLeaveTheFile ==
  ASSUME TypeOK, ReqOK, SoloEmission, NEW c \in Clients,
         Notify(c) \/ Snapshot(c) \/ OpenTmp(c) \/ WriteTmp(c)
  PROVE  /\ Emitting(c) /\ Emitting(c)' /\ UNCHANGED <<file, saved>>
         /\ ~ Overlapping' => ~ Overlapping /\ disk'[file] = disk[file]
  <1> USE DEF stateVars, auditVars, diskVars, procVars
  <1>1. Others(c) /\ reqs'[c].solo = reqs[c].solo /\ Emitting(c) /\ Emitting(c)'
    BY NotifyFacts, SnapshotFacts, OpenFacts, WriteTmpFacts DEF Emitting, At
  <1>2. UNCHANGED <<file, saved>>
    BY DEF Notify, Snapshot, OpenTmp, WriteTmp
  <1>3. ASSUME ~ Overlapping' PROVE ~ Overlapping /\ disk'[file] = disk[file]
    <2>1. reqs[c].solo
      BY <1>1, <1>3 DEF Overlapping
    <2>2. ~ Overlapping
      BY <1>1, <2>1 DEF Overlapping, SoloEmission
    <2>3. CASE Notify(c) \/ Snapshot(c)
      BY <2>2, <2>3 DEF Notify, Snapshot
    <2>4. CASE OpenTmp(c)
      <3>1. tmp' # file /\ disk' = [disk EXCEPT ![tmp'] = Empty]
        BY <2>4, OpenFacts
      <3>2. QED
        BY <2>2, <3>1 DEF TypeOK
    <2>5. CASE WriteTmp(c)
      <3>1. reqs[c].fd = tmp /\ tmp # file
        BY <1>1, <2>1, <2>5 DEF SoloEmission, WriteTmp, At, TypeOK
      <3>2. \E content : disk' = [disk EXCEPT ![reqs[c].fd] = content]
        BY <2>5, WriteTmpFacts
      <3>3. QED
        BY <2>2, <3>1, <3>2 DEF TypeOK
    <2>6. QED
      BY <2>3, <2>4, <2>5
  <1>4. QED
    BY <1>1, <1>2, <1>3

\* The rename of a re-emission nobody overlapped: the path names the state.
LEMMA SoloRename ==
  ASSUME TypeOK, ReqOK, SoloEmission, NEW c \in Clients, Rename(c), reqs[c].solo
  PROVE  disk'[file'] = server /\ server' = server /\ server \in States
  <1>1. Emitting(c) /\ At(c, {"rename"})
    BY DEF Rename, Emitting, At
  <1>2. tmp # None /\ disk[tmp] = server
    BY <1>1 DEF SoloEmission
  <1>3. QED
    BY <1>2 DEF Rename, TypeOK, stateVars

LEMMA FileStep ==
  ASSUME TypeOK, ReqOK, ReplayedSoFar, SoloEmission, FileIsWhole, FileIsState, [Next]_vars
  PROVE  FileIsWhole' /\ FileIsState'
  <1> USE DEF stateVars, auditVars, diskVars, procVars
  <1>1. /\ \A c : Emitting(c) <=> reqs[c].at \in EmitPlaces
        /\ \A c : Emitting(c)' <=> reqs'[c].at \in EmitPlaces
    BY DEF Emitting, At, EmitPlaces
  <1>2. ASSUME UNCHANGED <<reqs, server, disk, file, saved>>,
               stage' \in {"serving", "drained", "stopped"} => stage \in {"serving", "drained", "stopped"}
        PROVE  FileIsWhole' /\ FileIsState'
    <2>1. (Overlapping' <=> Overlapping) /\ (Quiet' <=> Quiet)
      BY <1>1, <1>2 DEF Overlapping, Quiet
    <2>2. QED
      BY <1>2, <2>1 DEF FileIsWhole, FileIsState, Document
  <1>3. CASE StartProcess \/ \E r \in Rows : ReplayStatement(r) \/ BootFails(r)
    <2>1. UNCHANGED <<reqs, disk, file, saved>> /\ stage' \in {"booting", "down"}
      BY <1>3 DEF StartProcess, ReplayStatement, BootFails
    <2>2. Overlapping' <=> Overlapping
      BY <1>1, <2>1 DEF Overlapping
    <2>3. QED
      BY <2>1, <2>2 DEF FileIsWhole, FileIsState
  <1>4. CASE Serve
    <2>1. UNCHANGED <<reqs, server, disk, file>> /\ stage = "booting"
      BY <1>4 DEF Serve
    <2>2. Overlapping' <=> Overlapping
      BY <1>1, <2>1 DEF Overlapping
    <2>3. disk[file] \in States \cup {Empty} /\ disk[file] # Torn
      BY <2>1 DEF ReplayedSoFar, TypeOK
    <2> DEFINE doc == Document(disk[file])
    <2>4. doc \in States
      BY <2>3, RowFacts
    <2>5. Faithful(doc) => server = [r \in Rows |-> IF r \in replayed THEN doc[r] ELSE None]
      BY <2>1 DEF ReplayedSoFar
    <2>6. \A r \in Rows : doc[r] # None => r \in replayed
      BY <1>4 DEF Serve, Pending
    <2>7. Faithful(doc) => doc = server
      <3> HIDE DEF doc
      <3>1. doc = [r \in Rows |-> doc[r]]
        BY <2>4 DEF States
      <3>2. QED
        BY <2>5, <2>6, <3>1
    <2>8. FileIsState'
      <3>1. saved' = "yes" => Faithful(doc)
        BY <1>4 DEF Serve
      <3>2. saved' = "yes" => doc = server' /\ disk'[file'] # Torn /\ Document(disk'[file']) = doc
        BY <2>1, <2>3, <2>7, <3>1
      <3> HIDE DEF doc
      <3>3. QED
        BY <3>2 DEF FileIsState
    <2>9. FileIsWhole'
      <3>1. disk[file] = Empty => Faithful(doc)
        BY DEF Faithful, Document, Nowhere
      <3>2. Faithful(doc) => saved' \in {saved, "yes"} /\ (saved' # "overlapped" => saved # "overlapped")
        BY <1>4 DEF Serve
      <3>3. CASE disk[file] = Empty
        BY <2>1, <2>2, <3>1, <3>2, <3>3 DEF FileIsWhole
      <3>4. CASE disk[file] # Empty
        BY <2>1, <2>3, <3>4 DEF FileIsWhole
      <3>5. QED
        BY <3>3, <3>4
    <2>10. QED
      BY <2>8, <2>9
  <1>5. ASSUME NEW c \in Clients, Request(c) PROVE FileIsWhole' /\ FileIsState'
    <2>1. ASSUME Others(c), ~ Emitting(c), ~ Emitting(c)', UNCHANGED <<server, disk, file, saved, stage>>
          PROVE  FileIsWhole' /\ FileIsState'
      <3>1. (Overlapping' <=> Overlapping) /\ (Quiet' <=> Quiet)
        BY <1>1, <2>1 DEF Overlapping, Quiet, Others
      <3>2. QED
        BY <2>1, <3>1 DEF FileIsWhole, FileIsState, Document
    <2>2. ASSUME NEW op \in Ops, NEW r \in Rows, NEW def \in Defs \cup {None}, Gate(c, op, r, def)
          PROVE  FileIsWhole' /\ FileIsState'
      <3>1. Others(c) /\ reqs[c].at = "idle" /\ reqs'[c].at \in {"idle", "apply"}
        BY <2>2, GateFacts
      <3>2. QED
        BY <1>1, <2>1, <2>2, <3>1 DEF Gate, EmitPlaces
    <2>3. CASE ApplyRefused(c)
      <3>1. Others(c) /\ reqs[c].at = "apply" /\ reqs'[c].at = "idle"
        BY <2>3, AnswerFacts DEF ApplyRefused, At
      <3>2. QED
        BY <1>1, <2>1, <2>3, <3>1 DEF ApplyRefused, EmitPlaces
    <2>4. CASE ApplyWrite(c)
      <3>1. /\ reqs'[c].at = "notify" /\ reqs[c].at = "apply"
            /\ reqs'[c].solo = \A e \in Clients \ {c} : ~ Emitting(e)
        BY <2>4, ApplyFacts
      <3>2. Emitting(c)' /\ ~ Emitting(c)
        BY <1>1, <3>1 DEF EmitPlaces
      <3>3. ~ Overlapping' => ~ Overlapping
        BY <3>1, <3>2 DEF Overlapping
      <3>4. ~ Quiet'
        BY <3>2 DEF Quiet
      <3>5. QED
        BY <2>4, <3>3, <3>4 DEF ApplyWrite, FileIsWhole, FileIsState
    <2>5. CASE Notify(c) \/ Snapshot(c) \/ OpenTmp(c) \/ WriteTmp(c)
      <3>1. ~ Quiet'
        BY <2>5, MovesLeaveTheFile DEF Quiet
      <3>2. QED
        BY <2>5, <3>1, MovesLeaveTheFile DEF FileIsWhole, FileIsState
    <2>6. CASE Rename(c)
      <3>1. CASE reqs[c].solo
        <4>1. disk'[file'] = server /\ server' = server /\ server \in States
          BY <2>6, <3>1, SoloRename
        <4>2. QED
          BY <4>1, RowFacts, NamesAssumption DEF FileIsWhole, FileIsState, Document
      <3>2. CASE ~ reqs[c].solo
        BY <2>6, <3>2 DEF Rename, FileIsWhole, FileIsState
      <3>3. QED
        BY <3>1, <3>2
    <2>7. CASE EmitFails(c)
      <3>1. CASE reqs[c].solo /\ saved # "overlapped"
        <4>1. Emitting(c)
          BY <2>7 DEF EmitFails, Emitting, At
        <4>2. ~ Overlapping
          BY <3>1, <4>1 DEF SoloEmission, Overlapping
        <4>3. QED
          BY <2>7, <3>1, <4>2 DEF EmitFails, FileIsWhole, FileIsState
      <3>2. CASE ~ (reqs[c].solo /\ saved # "overlapped")
        BY <2>7, <3>2 DEF EmitFails, FileIsWhole, FileIsState
      <3>3. QED
        BY <3>1, <3>2
    <2>8. QED
      BY <1>5, <2>2, <2>3, <2>4, <2>5, <2>6, <2>7 DEF Request
  <1>6. CASE HandleReconfigure \/ ShutDown \/ StopListener
    BY <1>2, <1>6 DEF HandleReconfigure, ShutDown, StopListener
  <1>7. CASE Exit \/ Crash
    BY <1>7 DEF Exit, Crash, Gone, FileIsWhole, FileIsState
  <1>8. CASE UNCHANGED vars
    BY <1>2, <1>8 DEF vars
  <1>9. QED
    BY <1>3, <1>4, <1>5, <1>6, <1>7, <1>8 DEF Next

-----------------------------------------------------------------------------
(* The bindings.                                                           *)

\* The steps of a request that has nothing to notify keep the set of those
\* that have.
LEMMA SameUnnotified ==
  ASSUME NEW c \in Clients, Others(c), reqs[c].at # "notify", reqs'[c].at # "notify"
  PROVE  Unnotified' = Unnotified /\ \A ch : Carrying(ch)' = Carrying(ch)
  <1>1. \A d \in Clients : d \in Unnotified' <=> d \in Unnotified
    BY DEF Unnotified, At, Others
  <1>2. Unnotified' = Unnotified
    BY <1>1 DEF Unnotified
  <1>3. \A d \in Unnotified : reqs'[d] = reqs[d]
    BY DEF Unnotified, At, Others
  <1>4. QED
    BY <1>2, <1>3 DEF Carrying

\* All the steps of a request but the write and its notification.
OtherStep(c) ==
  \/ \E op \in Ops, r \in Rows, def \in Defs \cup {None} : Gate(c, op, r, def)
  \/ ApplyRefused(c) \/ Snapshot(c) \/ OpenTmp(c) \/ WriteTmp(c) \/ Rename(c) \/ EmitFails(c)

LEMMA OtherSteps ==
  ASSUME TypeOK, ReqOK, NEW c \in Clients, OtherStep(c)
  PROVE  /\ UNCHANGED <<server, live, queue, ledger, applied, stage>>
         /\ Unnotified' = Unnotified /\ \A ch : Carrying(ch)' = Carrying(ch)
  <1> USE DEF stateVars, auditVars, diskVars, procVars
  <1>1. UNCHANGED <<server, live, queue, ledger, applied, stage>>
    BY DEF OtherStep, Gate, ApplyRefused, Snapshot, OpenTmp, WriteTmp, Rename, EmitFails
  <1>2. Others(c) /\ reqs[c].at # "notify" /\ reqs'[c].at # "notify"
    <2>1. ASSUME NEW op \in Ops, NEW r \in Rows, NEW def \in Defs \cup {None}, Gate(c, op, r, def)
          PROVE  Others(c) /\ reqs[c].at # "notify" /\ reqs'[c].at # "notify"
      <3>1. Others(c) /\ reqs[c].at = "idle" /\ reqs'[c].at \in {"idle", "apply"}
        BY <2>1, GateFacts
      <3>2. QED
        BY <3>1
    <2>2. CASE ApplyRefused(c) \/ Rename(c) \/ EmitFails(c)
      BY <2>2, AnswerFacts DEF ApplyRefused, Rename, EmitFails, At
    <2>3. CASE Snapshot(c)
      BY <2>3, SnapshotFacts
    <2>4. CASE OpenTmp(c)
      BY <2>4, OpenFacts
    <2>5. CASE WriteTmp(c)
      BY <2>5, WriteTmpFacts
    <2>6. QED
      BY <2>1, <2>2, <2>3, <2>4, <2>5 DEF OtherStep
  <1>3. QED
    BY <1>1, <1>2, SameUnnotified

LEMMA RequestSplits ==
  ASSUME NEW c \in Clients, Request(c)
  PROVE  ApplyWrite(c) \/ Notify(c) \/ OtherStep(c)
  BY DEF Request, OtherStep

LEMMA BindStep ==
  ASSUME TypeOK, ReqOK, LogsOK, BindingsFollow, [Next]_vars
  PROVE  BindingsFollow'
  <1> USE DEF BindingsFollow, stateVars, auditVars, diskVars, procVars
  <1>1. CASE StartProcess \/ Serve \/ \E r \in Rows : ReplayStatement(r) \/ BootFails(r)
    BY <1>1 DEF StartProcess, Serve, ReplayStatement, BootFails
  <1>2. ASSUME NEW c \in Clients, Request(c) PROVE BindingsFollow'
    <2>1. CASE ApplyWrite(c)
      <3>1. c \in Unnotified'
        BY <2>1, ApplyFacts DEF Unnotified, At
      <3>2. QED
        BY <3>1
    <2>2. CASE Notify(c)
      <3>1. stage = "serving" => queue' # << >>
        BY <2>2, NotifyFacts DEF Notify, LogsOK
      <3>2. QED
        BY <2>2, <3>1 DEF Notify
    <2>3. CASE OtherStep(c)
      BY <2>3, OtherSteps
    <2>4. QED
      BY <1>2, <2>1, <2>2, <2>3, RequestSplits
  <1>3. CASE HandleReconfigure
    BY <1>3 DEF HandleReconfigure, Reconciled
  <1>4. CASE ShutDown \/ StopListener \/ Exit \/ Crash
    BY <1>4 DEF ShutDown, StopListener, Exit, Crash, Gone
  <1>5. CASE UNCHANGED vars
    BY <1>5 DEF vars, Unnotified, At
  <1>6. QED
    BY <1>1, <1>2, <1>3, <1>4, <1>5 DEF Next

-----------------------------------------------------------------------------
(* Counting changes.                                                       *)

Mine(ch, x) == IF x = ch THEN 1 ELSE 0

LEMMA TimesEmpty == \A ch : Times(ch, << >>) = 0
  <1>1. \A ch : {i \in DOMAIN << >> : << >>[i] = ch} = {}
    OBVIOUS
  <1>2. QED
    BY <1>1, FS_EmptySet DEF Times

LEMMA TimesAppend ==
  ASSUME NEW s \in Seq(Changes), NEW x \in Changes, NEW ch \in Changes
  PROVE  Times(ch, s) \in Nat /\ Times(ch, Append(s, x)) = Times(ch, s) + Mine(ch, x)
  <1> DEFINE S == {i \in DOMAIN s : s[i] = ch}
             t == Append(s, x)
             T == {i \in DOMAIN t : t[i] = ch}
             n == Len(s) + 1
  <1>1. /\ DOMAIN s = 1 .. Len(s) /\ DOMAIN t = 1 .. n /\ Len(s) \in Nat
        /\ \A i \in DOMAIN s : t[i] = s[i]
        /\ t[n] = x
    OBVIOUS
  <1>2. IsFiniteSet(S) /\ Cardinality(S) \in Nat
    <2>1. IsFiniteSet(DOMAIN s)
      BY <1>1, FS_Interval
    <2>2. S \in SUBSET DOMAIN s
      OBVIOUS
    <2> HIDE DEF S
    <2>3. QED
      BY <2>1, <2>2, FS_Subset, FS_CardinalityType
  <1>3. n \notin S
    BY <1>1
  <1>4. T = IF x = ch THEN S \cup {n} ELSE S
    <2> HIDE DEF t
    <2>1. \A i \in DOMAIN t : i \in DOMAIN s \/ i = n
      BY <1>1
    <2>2. DOMAIN s \subseteq DOMAIN t /\ n \in DOMAIN t
      BY <1>1
    <2>3. QED
      BY <1>1, <2>1, <2>2
  <1>5. Cardinality(S \cup {n}) = Cardinality(S) + 1
    <2> HIDE DEF S, n
    <2> QED
      BY <1>2, <1>3, FS_AddElement
  <1>6. Times(ch, s) = Cardinality(S) /\ Times(ch, t) = Cardinality(T)
    BY DEF Times
  <1> HIDE DEF S, T, n, t
  <1>7. QED
    BY <1>2, <1>4, <1>5, <1>6 DEF Mine, t

LEMMA TimesTail ==
  ASSUME NEW s \in Seq(Changes), s # << >>, NEW ch \in Changes
  PROVE  /\ Times(ch, s) \in Nat /\ Times(ch, Tail(s)) \in Nat
         /\ Times(ch, s) = Times(ch, Tail(s)) + Mine(ch, Head(s))
  <1> DEFINE S == {i \in DOMAIN s : s[i] = ch}
             t == Tail(s)
             T == {i \in DOMAIN t : t[i] = ch}
             R == S \ {1}
             f == [i \in R |-> i - 1]
  <1>1. /\ Len(s) \in Nat \ {0} /\ DOMAIN s = 1 .. Len(s) /\ DOMAIN t = 1 .. Len(s) - 1
        /\ \A i \in DOMAIN t : t[i] = s[i + 1]
        /\ Head(s) = s[1]
    OBVIOUS
  <1>2. IsFiniteSet(S) /\ Cardinality(S) \in Nat
    <2>1. IsFiniteSet(DOMAIN s)
      BY <1>1, FS_Interval
    <2>2. S \in SUBSET DOMAIN s
      OBVIOUS
    <2> HIDE DEF S
    <2>3. QED
      BY <2>1, <2>2, FS_Subset, FS_CardinalityType
  <1>3. f \in Bijection(R, T)
    <2> HIDE DEF t
    <2>1. \A i \in R : i \in 2 .. Len(s) /\ i - 1 \in DOMAIN t /\ t[i - 1] = s[i]
      BY <1>1
    <2>2. f \in [R -> T]
      BY <2>1
    <2>3. \A i, j \in R : f[i] = f[j] => i = j
      BY <2>1
    <2>4. \A k \in T : k + 1 \in R /\ f[k + 1] = k
      BY <1>1
    <2> HIDE DEF f, R, T
    <2>5. QED
      BY <2>2, <2>3, <2>4 DEF Bijection, Injection, Surjection, IsInjective
  <1>4. IsFiniteSet(R) /\ Cardinality(R) = IF 1 \in S THEN Cardinality(S) - 1 ELSE Cardinality(S)
    <2> HIDE DEF S
    <2> QED
      BY <1>2, FS_RemoveElement
  <1>5. Cardinality(T) = Cardinality(R) /\ Cardinality(R) \in Nat
    <2>1. ExistsBijection(R, T)
      BY <1>3 DEF ExistsBijection
    <2> HIDE DEF R, T
    <2>2. QED
      BY <1>4, <2>1, FS_Bijection, FS_CardinalityType
  <1>6. 1 \in S <=> Head(s) = ch
    BY <1>1
  <1>7. Times(ch, s) = Cardinality(S) /\ Times(ch, t) = Cardinality(T)
    BY DEF Times
  <1> HIDE DEF S, T, R, f, t
  <1>8. QED
    BY <1>2, <1>4, <1>5, <1>6, <1>7 DEF Mine, t

LEMMA CarryingFacts ==
  \A ch : Carrying(ch) \in SUBSET Clients /\ IsFiniteSet(Carrying(ch))
           /\ Cardinality(Carrying(ch)) \in Nat
  <1> TAKE ch
  <1>1. Carrying(ch) \in SUBSET Clients
    BY DEF Carrying, Unnotified
  <1>2. QED
    BY <1>1, ClientsAssumption, FS_Subset, FS_CardinalityType

\* The sum of the three places, for one kind of change.
Sum(ch) == Times(ch, ledger) + Times(ch, queue) + Cardinality(Carrying(ch))

LEMMA ApplyCounts ==
  ASSUME TypeOK, ReqOK, LogsOK, NEW c \in Clients, ApplyWrite(c), NEW ch \in Changes,
         Sum(ch) = Times(ch, applied)
  PROVE  Sum(ch)' = Times(ch, applied)'
  <1> USE DEF stateVars, auditVars, diskVars, procVars
  <1> DEFINE change == Change(reqs[c].row, reqs[c].def)
             C == Carrying(ch)
  <1>1. /\ reqs[c].at = "apply" /\ reqs'[c].at = "notify" /\ reqs'[c].change = change
        /\ reqs[c].row \in Rows /\ reqs[c].def \in Defs \cup {None}
        /\ \A d \in Clients \ {c} :
             IF Emitting(d) THEN /\ reqs'[d].at = reqs[d].at
                                 /\ reqs[d].at = "notify" => reqs'[d].change = reqs[d].change
                            ELSE reqs'[d] = reqs[d]
    BY ApplyFacts
  <1>2. change \in Changes
    BY <1>1, WriteFacts
  <1>3. UNCHANGED <<queue, ledger>> /\ applied' = Append(applied, change)
    BY DEF ApplyWrite
  <1>4. c \notin C
    BY <1>1 DEF Carrying, Unnotified, At
  <1>5. \A d \in Clients : d \in Carrying(ch)' <=> reqs'[d].at = "notify" /\ reqs'[d].change = ch
    BY DEF Carrying, Unnotified, At
  <1>6. \A d \in Clients : d \in C <=> reqs[d].at = "notify" /\ reqs[d].change = ch
    BY DEF Carrying, Unnotified, At
  <1> HIDE DEF change
  <1>7. \A d \in Clients \ {c} : d \in Carrying(ch)' <=> d \in C
    <2>1. \A d \in Clients \ {c} : ~ Emitting(d) => reqs'[d] = reqs[d]
      BY <1>1
    <2>2. \A d \in Clients \ {c} : Emitting(d) =>
             /\ reqs'[d].at = reqs[d].at
             /\ reqs[d].at = "notify" => reqs'[d].change = reqs[d].change
      BY <1>1
    <2> HIDE DEF C
    <2>3. QED
      BY <1>5, <1>6, <2>1, <2>2
  <1>8. Carrying(ch)' = IF change = ch THEN C \cup {c} ELSE C
    <2>1. c \in Carrying(ch)' <=> change = ch
      BY <1>1, <1>5
    <2>2. Carrying(ch)' \subseteq Clients
      BY DEF Carrying, Unnotified
    <2>3. C \subseteq Clients
      BY CarryingFacts
    <2> HIDE DEF C
    <2>4. QED
      BY <1>4, <1>7, <2>1, <2>2, <2>3
  <1>9. /\ IsFiniteSet(C) /\ Cardinality(C) \in Nat
        /\ Cardinality(C \cup {c}) = Cardinality(C) + 1
    BY <1>4, CarryingFacts, FS_AddElement
  <1>10. Times(ch, applied') = Times(ch, applied) + Mine(ch, change)
    BY <1>2, <1>3, TimesAppend DEF LogsOK
  <1>11. /\ Times(ch, applied) \in Nat /\ Times(ch, ledger) \in Nat /\ Times(ch, queue) \in Nat
    BY <1>2, TimesAppend DEF LogsOK
  <1>12. Cardinality(Carrying(ch)') = Cardinality(C) + Mine(ch, change)
    BY <1>8, <1>9 DEF Mine
  <1> HIDE DEF C
  <1>13. Mine(ch, change) \in Nat
    BY DEF Mine
  <1>14. /\ Times(ch, ledger)' = Times(ch, ledger) /\ Times(ch, queue)' = Times(ch, queue)
         /\ Times(ch, applied)' = Times(ch, applied')
    BY <1>3 DEF Times
  <1>15. Times(ch, ledger) + Times(ch, queue) + Cardinality(C) = Times(ch, applied)
    BY DEF Sum, C
  <1>16. QED
    BY <1>9, <1>10, <1>11, <1>12, <1>13, <1>14, <1>15 DEF Sum

LEMMA NotifyCounts ==
  ASSUME TypeOK, ReqOK, LogsOK, stage = "serving", NEW c \in Clients, Notify(c),
         NEW ch \in Changes, Sum(ch) = Times(ch, applied)
  PROVE  Sum(ch)' = Times(ch, applied)'
  <1> DEFINE change == reqs[c].change
             C == Carrying(ch)
  <1>1. /\ reqs[c].at = "notify" /\ reqs'[c].at = "snapshot" /\ change \in Changes /\ Others(c)
    BY NotifyFacts
  <1>2. queue' = Append(queue, change) /\ UNCHANGED <<ledger, applied>>
    BY DEF Notify
  <1> HIDE DEF change
  <1>3. Carrying(ch)' = C \ {c}
    BY <1>1 DEF Carrying, Unnotified, At, Others
  <1>4. c \in C <=> change = ch
    BY <1>1 DEF Carrying, Unnotified, At, change
  <1>5. IsFiniteSet(C) /\ Cardinality(C) \in Nat
    BY CarryingFacts
  <1>6. Cardinality(C \ {c}) = IF c \in C THEN Cardinality(C) - 1 ELSE Cardinality(C)
    <2> HIDE DEF C
    <2> QED
      BY <1>5, FS_RemoveElement
  <1>7. Times(ch, queue') = Times(ch, queue) + Mine(ch, change)
    BY <1>1, <1>2, TimesAppend DEF LogsOK
  <1>8. Times(ch, applied) \in Nat /\ Times(ch, ledger) \in Nat /\ Times(ch, queue) \in Nat
    BY <1>1, TimesAppend DEF LogsOK
  <1>9. Cardinality(Carrying(ch)') + Mine(ch, change) = Cardinality(C)
    BY <1>3, <1>4, <1>5, <1>6 DEF Mine
  <1>10. Mine(ch, change) \in Nat
    BY DEF Mine
  <1>11. Cardinality(Carrying(ch)') \in Nat
    BY <1>3, <1>5, FS_RemoveElement, FS_CardinalityType
  <1>12. /\ Times(ch, ledger)' = Times(ch, ledger) /\ Times(ch, queue)' = Times(ch, queue')
         /\ Times(ch, applied)' = Times(ch, applied)
    BY <1>2 DEF Times
  <1>13. Times(ch, ledger) + Times(ch, queue) + Cardinality(C) = Times(ch, applied)
    BY DEF Sum
  <1> HIDE DEF C
  <1>14. QED
    BY <1>5, <1>7, <1>8, <1>9, <1>10, <1>11, <1>12, <1>13 DEF Sum

LEMMA ReconfigureCounts ==
  ASSUME TypeOK, ReqOK, LogsOK, HandleReconfigure, NEW ch \in Changes,
         Sum(ch) = Times(ch, applied)
  PROVE  Sum(ch)' = Times(ch, applied)'
  <1> USE DEF stateVars, auditVars, diskVars, procVars
  <1>1. /\ queue # << >> /\ queue' = Tail(queue) /\ ledger' = Append(ledger, Head(queue))
        /\ UNCHANGED <<applied, reqs>>
    BY DEF HandleReconfigure, Left
  <1>2. Head(queue) \in Changes
    BY <1>1 DEF LogsOK
  <1>3. Times(ch, ledger') = Times(ch, ledger) + Mine(ch, Head(queue)) /\ Times(ch, ledger) \in Nat
    BY <1>1, <1>2, TimesAppend DEF LogsOK
  <1>4. /\ Times(ch, queue) = Times(ch, queue') + Mine(ch, Head(queue))
        /\ Times(ch, queue) \in Nat /\ Times(ch, queue') \in Nat
    BY <1>1, TimesTail DEF LogsOK
  <1>5. Carrying(ch)' = Carrying(ch)
    BY <1>1 DEF Carrying, Unnotified, At
  <1>6. Mine(ch, Head(queue)) \in Nat /\ Cardinality(Carrying(ch)) \in Nat
    BY CarryingFacts DEF Mine
  <1>7. /\ Times(ch, ledger)' = Times(ch, ledger') /\ Times(ch, queue)' = Times(ch, queue')
        /\ Times(ch, applied)' = Times(ch, applied)
    BY <1>1 DEF Times
  <1>8. QED
    BY <1>3, <1>4, <1>5, <1>6, <1>7 DEF Sum

LEMMA CountStep ==
  ASSUME TypeOK, ReqOK, LogsOK, ReplayedSoFar, EachOnce, [Next]_vars
  PROVE  EachOnce'
  <1> USE DEF stateVars, auditVars, diskVars, procVars
  <1>1. EachOnce <=> (stage = "serving" => \A ch \in Changes : Sum(ch) = Times(ch, applied))
    BY DEF EachOnce, Sum
  <1>2. EachOnce' <=> (stage' = "serving" => \A ch \in Changes : Sum(ch)' = Times(ch, applied)')
    BY DEF EachOnce, Sum
  <1>3. ASSUME UNCHANGED <<ledger, queue, applied, stage>>, \A ch : Carrying(ch)' = Carrying(ch)
        PROVE  EachOnce'
    BY <1>3 DEF EachOnce, Times
  <1>4. CASE StartProcess \/ \E r \in Rows : ReplayStatement(r) \/ BootFails(r)
    BY <1>4 DEF StartProcess, ReplayStatement, BootFails, EachOnce
  <1>5. CASE Serve
    <2>1. /\ stage = "booting" /\ UNCHANGED <<ledger, queue, applied, reqs>>
          /\ queue = << >> /\ ledger = applied
      BY <1>5 DEF Serve, ReplayedSoFar
    <2>2. \A c \in Clients : ~ Emitting(c)
      BY <2>1, NoneEmitsAtBoot
    <2>3. \A ch \in Changes : Carrying(ch)' = {}
      BY <2>1, <2>2 DEF Carrying, Unnotified, Emitting, At
    <2>4. \A ch \in Changes : Times(ch, ledger) \in Nat
      BY TimesAppend DEF LogsOK
    <2>5. \A ch \in Changes :
            /\ Times(ch, ledger)' = Times(ch, applied)' /\ Times(ch, ledger)' = Times(ch, ledger)
            /\ Times(ch, queue)' = 0
      BY <2>1, TimesEmpty DEF Times
    <2>6. \A ch \in Changes : Sum(ch)' = Times(ch, applied)'
      BY <2>3, <2>4, <2>5, FS_EmptySet DEF Sum
    <2>7. QED
      BY <1>2, <2>6
  <1>6. ASSUME NEW c \in Clients, Request(c) PROVE EachOnce'
    <2>1. CASE ApplyWrite(c)
      <3>1. stage' = stage
        BY <2>1 DEF ApplyWrite
      <3>2. QED
        BY <1>1, <1>2, <2>1, <3>1, ApplyCounts
    <2>2. CASE Notify(c)
      <3>1. stage' = stage
        BY <2>2 DEF Notify
      <3>2. QED
        BY <1>1, <1>2, <2>2, <3>1, NotifyCounts
    <2>3. CASE OtherStep(c)
      BY <1>3, <2>3, OtherSteps
    <2>4. QED
      BY <1>6, <2>1, <2>2, <2>3, RequestSplits
  <1>7. CASE HandleReconfigure
    <2>1. stage' = stage
      BY <1>7 DEF HandleReconfigure
    <2>2. QED
      BY <1>1, <1>2, <1>7, <2>1, ReconfigureCounts
  <1>8. CASE ShutDown \/ StopListener \/ Exit \/ Crash
    BY <1>8 DEF ShutDown, StopListener, Exit, Crash, Gone, EachOnce
  <1>9. CASE UNCHANGED vars
    <2>1. UNCHANGED <<ledger, queue, applied, stage, reqs>>
      BY <1>9 DEF vars
    <2>2. QED
      BY <1>3, <2>1 DEF Carrying, Unnotified, At
  <1>10. QED
    BY <1>4, <1>5, <1>6, <1>7, <1>8, <1>9 DEF Next

-----------------------------------------------------------------------------
LEMMA Invariance == Spec => []IInv
  <1>1. Init => IInv
    BY InitIInv
  <1>2. IInv /\ [Next]_vars => IInv'
    <2> SUFFICES ASSUME IInv, [Next]_vars PROVE IInv'
      OBVIOUS
    <2>1. /\ TypeOK /\ ReqOK /\ LogsOK /\ StopCounts /\ ReplayedSoFar /\ SoloEmission
          /\ EachOnce /\ BindingsFollow /\ FileIsWhole /\ FileIsState
      BY DEF IInv
    <2>2. TypeOK' /\ ReqOK' /\ LogsOK' /\ StopCounts'
      BY <2>1, TypeStep
    <2>3. ReplayedSoFar' /\ SoloEmission'
      BY <2>1, BootStep, SoloStep
    <2>4. FileIsWhole' /\ FileIsState'
      BY <2>1, FileStep
    <2>5. BindingsFollow' /\ EachOnce'
      BY <2>1, BindStep, CountStep
    <2>6. QED
      BY <2>2, <2>3, <2>4, <2>5 DEF IInv
  <1>3. QED
    BY <1>1, <1>2, PTL DEF Spec

\* Type correctness of the state, the run loop, the requests and the disk.
THEOREM TypeCorrect == Spec => []TypeOK
  BY Invariance, PTL DEF IInv

\* reconcile_all reads the state when it runs and not when it was told to: with
\* no notification outstanding the bindings are the state, in whatever order
\* concurrent commits notified the loop.
THEOREM BindingsCatchUp == Spec => []BindingsFollow
  BY Invariance, PTL DEF IInv

\* Every change that apply_server_write makes while the process serves is in the
\* audit ledger once, or on its way there once.
THEOREM EveryChangeIsRecorded == Spec => []NothingUnrecorded
  <1>1. IInv => NothingUnrecorded
    <2> SUFFICES ASSUME IInv, stage = "serving",
                        NEW ch \in Range(applied) \cup Range(ledger) \cup Range(queue)
                 PROVE  Times(ch, ledger) + Times(ch, queue)
                          + Cardinality({c \in Unnotified : reqs[c].change = ch})
                        = Times(ch, applied)
      BY DEF NothingUnrecorded
    <2>1. ch \in Changes
      BY DEF IInv, LogsOK, Range
    <2>2. QED
      BY <2>1 DEF IInv, EachOnce, Carrying
  <1>2. QED
    BY <1>1, Invariance, PTL

\* Between re-emissions the config file is the rendering of the state, and a boot
\* of a file that reads back as it was meant starts from where the last process
\* was, for every way in which statements may be misread or refused.
THEOREM FileFollowsState == Spec => []FileIsState
  BY Invariance, PTL DEF IInv

\* The temporary file and the rename: whenever the process dies, the config path
\* names a whole document, provided no two re-emissions overlapped.
THEOREM FileStaysWhole == Spec => []FileIsWhole
  BY Invariance, PTL DEF IInv
=============================================================================
