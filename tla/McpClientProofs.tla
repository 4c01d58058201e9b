-------------------------- MODULE McpClientProofs --------------------------
(***************************************************************************)
(* Theorems about McpClient for any callers and any number of calls.  A    *)
(* response is handed to whoever reads next, so that it reaches its own    *)
(* call is a matter of the whole wire: while quiet there is at most one    *)
(* request under way, in exactly one place, and it is that of the call     *)
(* that holds the mutex.                                                   *)
(***************************************************************************)
EXTENDS McpClient, FiniteSetTheorems, SequenceTheorems, TLAPS

Waiting == {d \in Callers : at[d] = "lock"}

\* Only Boot calls before the client is ready, and only the callers from then on.
ControlOK ==
  /\ stage \in Stages /\ alive \in BOOLEAN
  /\ at \in [Clients -> {"idle", "lock", "write", "read", "done"}]
  /\ ended \in [Clients -> BOOLEAN] /\ quiet \in BOOLEAN
  /\ stage \notin {"ready", "closed"} => \A c \in Callers : at[c] = "idle"
  /\ stage \notin {"initializing", "listing"} => at[Boot] = "idle"

\* The holder of the mutex is the one call that writes or reads.
Exclusive ==
  /\ mu \in Clients \cup {Nobody}
  /\ \A c \in Clients : at[c] \in {"write", "read"} <=> mu = c

\* IDs count up: the holder's is the latest, and its slot is unused until it writes.
NumbersOK ==
  /\ nextID \in Nat /\ id \in [Clients -> 0..nextID] /\ readers \subseteq 1..nextID
  /\ IsFiniteSet(Waiting) /\ nextID + Cardinality(Waiting) <= MaxCalls
  /\ stage = "off" => nextID = 0
  /\ stage = "initializing" => nextID = IF at[Boot] = "lock" THEN 0 ELSE 1
  /\ stage = "notifying" => nextID = 1
  /\ stage = "listing" => nextID = IF at[Boot] = "lock" THEN 1 ELSE 2
  /\ \A c \in Clients : at[c] \in {"write", "read"} => id[c] = nextID /\ nextID >= 1
  /\ \A c \in Clients : at[c] = "write" => nextID \notin readers /\ mail[nextID] = Nothing
  /\ \A r \in RequestIDs : r > nextID => mail[r] = Nothing

DataOK ==
  /\ stdin \in Seq(RequestIDs \cup {Notification})
  /\ working \subseteq RequestIDs /\ stdout \in Seq(RequestIDs \cup {Notification})
  /\ ~alive => stdin = <<>> /\ working = {}
  /\ result \in [Clients -> RequestIDs \cup {Nothing, Failed, ContextEnded}]
  /\ mail \in [RequestIDs -> RequestIDs \cup {Nothing, Failed, Notification}]

\* No request is under way.
Clear ==
  /\ stdin = <<>> \/ stdin = <<Notification>>
  /\ stage \in {"off", "initializing", "notifying"} => stdin = <<>>
  /\ working = {} /\ stdout = <<>> /\ readers = {}

\* Request r is in one place: written, at work, answered, or delivered; or lost with the
\* process.
Underway(r) ==
  \/ /\ stdin = <<r>> \/ stdin = <<Notification, r>>
     /\ working = {} /\ stdout = <<>> /\ readers = {r} /\ mail[r] = Nothing
  \/ stdin = <<>> /\ working = {r} /\ stdout = <<>> /\ readers = {r} /\ mail[r] = Nothing
  \/ stdin = <<>> /\ working = {} /\ stdout = <<r>> /\ readers = {r} /\ mail[r] = Nothing
  \/ stdin = <<>> /\ working = {} /\ stdout = <<>> /\ readers = {} /\ mail[r] \in {r, Failed}
  \/ /\ ~alive /\ stdin = <<>> /\ working = {} /\ stdout = <<>>
     /\ readers = {r} /\ mail[r] = Nothing

\* Start or ListTools did not succeed: the client is given up.
Doomed ==
  \/ stage = "failed"
  \/ stage \in {"initializing", "listing"} /\ at[Boot] = "done" /\ ~(result[Boot] > 0)

\* What the wire holds, as long as nothing disturbed it.
Undisturbed ==
  /\ \A c \in Callers : ~ended[c]
  /\ \/ Doomed
     \/ \E c \in Clients : at[c] = "read" /\ Underway(id[c])
     \/ (\A c \in Clients : at[c] # "read") /\ Clear
  /\ ResponseMatchesCall

IInv == ControlOK /\ Exclusive /\ NumbersOK /\ DataOK /\ (quiet => Undisturbed)
-----------------------------------------------------------------------------
(* Facts that the steps share. *)

LEMMA Tuples ==
  /\ \A x : Append(<<>>, x) = <<x>> /\ Head(<<x>>) = x /\ Tail(<<x>>) = <<>> /\ <<x>> # <<>>
  /\ \A x, y : Head(<<x, y>>) = x /\ Tail(<<x, y>>) = <<y>> /\ <<x, y>> # <<>>
OBVIOUS

LEMMA AppendToOne == ASSUME NEW x \in Int, NEW y \in Int PROVE Append(<<x>>, y) = <<x, y>>
<1>1. <<x>> \in Seq(Int) /\ Len(<<x>>) = 1 /\ <<x>>[1] = x
  OBVIOUS
<1>2. /\ Append(<<x>>, y) \in Seq(Int) /\ Len(Append(<<x>>, y)) = 2
      /\ Append(<<x>>, y)[1] = x /\ Append(<<x>>, y)[2] = y
  BY <1>1, AppendProperties
<1>3. <<x, y>> \in Seq(Int) /\ Len(<<x, y>>) = 2 /\ <<x, y>>[1] = x /\ <<x, y>>[2] = y
  OBVIOUS
<1>4. \A i \in 1..Len(<<x, y>>) : Append(<<x>>, y)[i] = <<x, y>>[i]
  BY <1>2, <1>3
<1>5. QED
  BY <1>2, <1>3, <1>4, SeqEqual

\* An ID in use is one that mail has a slot for.
LEMMA NextIDInRange ==
  ASSUME IInv PROVE nextID \in 0..MaxCalls /\ Cardinality(Waiting) \in Nat /\ MaxCalls \in Nat
BY McpAssumption, FS_CardinalityType DEF IInv, NumbersOK, McpAssumption

LEMMA MuOfReader ==
  ASSUME IInv, NEW c \in Clients, at[c] = "read" \/ at[c] = "write"
  PROVE  /\ mu = c /\ \A d \in Clients : at[d] \in {"read", "write"} => d = c
         /\ id[c] = nextID /\ nextID \in RequestIDs
<1>1. mu = c /\ \A d \in Clients : at[d] \in {"read", "write"} => d = c
  BY DEF IInv, Exclusive
<1>2. id[c] = nextID /\ nextID >= 1
  BY DEF IInv, NumbersOK
<1>3. QED
  BY <1>1, <1>2, NextIDInRange DEF RequestIDs

\* Steps of the read goroutines and of the server leave the calls where they are.
LEMMA WireControl ==
  ASSUME IInv, UNCHANGED <<stage, calling, ended>>, alive' \in BOOLEAN, quiet' \in BOOLEAN,
         readers' \subseteq readers,
         \A r \in RequestIDs : r \notin readers => mail'[r] = mail[r]
  PROVE  ControlOK' /\ Exclusive' /\ NumbersOK'
<1>1. UNCHANGED <<stage, at, id, result, mu, nextID, ended>>
  BY DEF calling
<1>2. ControlOK' /\ Exclusive'
  BY <1>1 DEF IInv, ControlOK, Exclusive
<1>3. Waiting' = Waiting
  BY <1>1 DEF Waiting
<1>4. \A c \in Clients : at[c] = "write" => nextID \notin readers' /\ mail'[nextID] = Nothing
  BY MuOfReader DEF IInv, NumbersOK
<1>5. \A r \in RequestIDs : r > nextID => mail'[r] = Nothing
  <2> SUFFICES ASSUME NEW r \in RequestIDs, r > nextID PROVE mail'[r] = Nothing
    OBVIOUS
  <2>1. r \notin 1..nextID
    BY NextIDInRange DEF RequestIDs
  <2>2. QED
    BY <2>1 DEF IInv, NumbersOK
<1>6. NumbersOK'
  BY <1>1, <1>3, <1>4, <1>5 DEF IInv, NumbersOK
<1>7. QED
  BY <1>2, <1>6

LEMMA WireQuiet ==
  ASSUME IInv, UNCHANGED <<stage, calling, ended>>, quiet,
         \A c \in Clients : at[c] = "read" /\ Underway(id[c]) => Underway(id[c])',
         Clear => Clear'
  PROVE  Undisturbed'
<1>1. UNCHANGED <<stage, at, id, result, mu, nextID, ended>>
  BY DEF calling
<1>2. Undisturbed
  BY DEF IInv
<1>3. (\A c \in Callers : ~ended'[c]) /\ ResponseMatchesCall'
  BY <1>1, <1>2 DEF Undisturbed, ResponseMatchesCall
<1>4. CASE Doomed
  BY <1>1, <1>3, <1>4 DEF Undisturbed, Doomed
<1>5. CASE \E c \in Clients : at[c] = "read" /\ Underway(id[c])
  <2>1. PICK c \in Clients : at[c] = "read" /\ Underway(id[c])
    BY <1>5
  <2>2. at'[c] = "read" /\ Underway(id[c])'
    BY <1>1, <2>1
  <2>3. QED
    BY <1>3, <2>2 DEF Undisturbed
<1>6. CASE (\A c \in Clients : at[c] # "read") /\ Clear
  <2>1. (\A c \in Clients : at'[c] # "read") /\ Clear'
    BY <1>1, <1>6
  <2>2. QED
    BY <1>3, <2>1 DEF Undisturbed
<1>7. QED
  BY <1>2, <1>4, <1>5, <1>6 DEF Undisturbed
-----------------------------------------------------------------------------
(* The read goroutines and the server. *)

LEMMA ReadStepKeeps == ASSUME IInv, NEW r \in RequestIDs, ReadStep(r) PROVE IInv'
<1>1. CASE Read(r)
  <2>1. PICK line \in {Head(stdout)} \cup (IF readers = {r} THEN {} ELSE {Failed, Nothing}) :
          /\ mail' = [mail EXCEPT ![r] = line]
          /\ readers' = IF line = Nothing THEN readers ELSE readers \ {r}
    BY <1>1 DEF Read
  <2>2. /\ r \in readers /\ stdout # <<>> /\ stdout' = Tail(stdout)
        /\ UNCHANGED <<stage, calling, ended>> /\ UNCHANGED <<alive, stdin, working, quiet, result>>
    BY <1>1 DEF Read, calling
  <2>3. ControlOK' /\ Exclusive' /\ NumbersOK'
    BY <2>1, <2>2, WireControl DEF IInv, ControlOK, DataOK
  <2>4. DataOK'
    <3>1. line \in RequestIDs \cup {Nothing, Failed, Notification}
          /\ stdout' \in Seq(RequestIDs \cup {Notification})
      BY <2>1, <2>2 DEF IInv, DataOK
    <3>2. QED
      BY <2>1, <2>2, <3>1 DEF IInv, DataOK
  <2>5. ASSUME NEW c \in Clients, at[c] = "read", Underway(id[c]) PROVE Underway(id[c])'
    <3>1. /\ stdin = <<>> /\ working = {} /\ stdout = <<id[c]>> /\ readers = {id[c]}
          /\ id[c] \in RequestIDs /\ id'[c] = id[c]
      BY <2>2, <2>5, MuOfReader DEF Underway, calling
    <3>2. r = id[c] /\ line = id[c] /\ line # Nothing
      BY <2>1, <2>2, <3>1, Tuples DEF RequestIDs, Nothing
    <3>3. mail'[r] = r /\ readers' = {} /\ stdout' = <<>>
      BY <2>1, <2>2, <3>1, <3>2, Tuples DEF IInv, DataOK
    <3>4. QED
      BY <2>2, <3>1, <3>2, <3>3 DEF Underway
  <2>6. Clear => Clear'
    BY <2>2 DEF Clear
  <2>7. quiet' => Undisturbed'
    BY <2>2, <2>5, <2>6, WireQuiet
  <2>8. QED
    BY <2>3, <2>4, <2>7 DEF IInv
<1>2. CASE ReadFails(r)
  <2>1. /\ r \in readers /\ ~alive /\ stdout = <<>>
        /\ mail' = [mail EXCEPT ![r] = Failed] /\ readers' = readers \ {r}
        /\ UNCHANGED <<stage, calling, ended>> /\ UNCHANGED <<alive, wire, quiet>>
        /\ UNCHANGED <<stdin, working, stdout, result>>
    BY <1>2 DEF ReadFails, calling, wire
  <2>2. ControlOK' /\ Exclusive' /\ NumbersOK'
    BY <2>1, WireControl DEF IInv, ControlOK, DataOK
  <2>3. DataOK'
    BY <2>1 DEF IInv, DataOK
  <2>4. ASSUME NEW c \in Clients, at[c] = "read", Underway(id[c]) PROVE Underway(id[c])'
    <3>1. readers = {id[c]} /\ r = id[c] /\ id'[c] = id[c]
      BY <2>1, <2>4 DEF Underway, calling
    <3>2. mail'[r] = Failed /\ readers' = {}
      BY <2>1, <3>1 DEF IInv, DataOK
    <3>3. stdin = <<>> /\ working = {} /\ stdout = <<>>
      BY <2>1 DEF IInv, DataOK
    <3>4. QED
      BY <2>1, <3>1, <3>2, <3>3 DEF Underway
  <2>5. Clear => Clear'
    BY <2>1 DEF Clear
  <2>6. quiet' => Undisturbed'
    BY <2>1, <2>4, <2>5, WireQuiet
  <2>7. QED
    BY <2>2, <2>3, <2>6 DEF IInv
<1>3. QED
  BY <1>1, <1>2 DEF ReadStep

\* Requests are answered one by one, and so only that of the call which waits.
LEMMA ServerReadsStep == IInv /\ ServerReads => IInv'
<1> SUFFICES ASSUME IInv, ServerReads PROVE IInv'
  OBVIOUS
<1>1. /\ alive /\ stdin # <<>> /\ stdin' = Tail(stdin)
      /\ working' = working \cup ({Head(stdin)} \ {Notification})
      /\ UNCHANGED <<stage, calling, ended>> /\ UNCHANGED <<alive, stdout, readers, mail, quiet, result>>
  BY DEF ServerReads, reading, calling
<1>2. ControlOK' /\ Exclusive' /\ NumbersOK'
  BY <1>1, WireControl DEF IInv, ControlOK
<1>3. DataOK'
  <2>1. /\ stdin' \in Seq(RequestIDs \cup {Notification})
        /\ Head(stdin) \in RequestIDs \cup {Notification}
    BY <1>1 DEF IInv, DataOK
  <2>2. QED
    BY <1>1, <2>1 DEF IInv, DataOK
<1>4. ASSUME NEW c \in Clients, at[c] = "read", Underway(id[c]) PROVE Underway(id[c])'
  <2>1. id'[c] = id[c] /\ id[c] \in RequestIDs /\ id[c] # Notification
    BY <1>1, <1>4, MuOfReader DEF calling, RequestIDs, Notification
  <2>2. /\ stdin = <<id[c]>> \/ stdin = <<Notification, id[c]>>
        /\ working = {} /\ stdout = <<>> /\ readers = {id[c]} /\ mail[id[c]] = Nothing
    BY <1>1, <1>4 DEF Underway
  <2>3. CASE stdin = <<id[c]>>
    <3>1. stdin' = <<>> /\ working' = {id[c]}
      BY <1>1, <2>1, <2>2, <2>3, Tuples
    <3>2. QED
      BY <1>1, <2>1, <2>2, <3>1 DEF Underway
  <2>4. CASE stdin = <<Notification, id[c]>>
    <3>1. stdin' = <<id[c]>> /\ working' = {}
      BY <1>1, <2>1, <2>2, <2>4, Tuples
    <3>2. QED
      BY <1>1, <2>1, <2>2, <3>1 DEF Underway
  <2>5. QED
    BY <2>2, <2>3, <2>4
<1>5. Clear => Clear'
  <2> SUFFICES ASSUME Clear PROVE Clear'
    OBVIOUS
  <2>1. stdin' = <<>> /\ working' = {}
    BY <1>1, Tuples DEF Clear
  <2>2. QED
    BY <1>1, <2>1 DEF Clear
<1>6. quiet' => Undisturbed'
  BY <1>1, <1>4, <1>5, WireQuiet
<1>7. QED
  BY <1>2, <1>3, <1>6 DEF IInv

LEMMA ServerAnswersStep == IInv /\ ServerAnswers => IInv'
<1> SUFFICES ASSUME IInv, ServerAnswers PROVE IInv'
  OBVIOUS
<1>1. PICK r \in working : working' = working \ {r} /\ stdout' = Append(stdout, r)
  BY DEF ServerAnswers
<1>2. /\ UNCHANGED <<stage, calling, ended>>
      /\ alive /\ UNCHANGED <<alive, stdin, readers, mail, quiet, result>>
  BY DEF ServerAnswers, reading, calling
<1>3. ControlOK' /\ Exclusive' /\ NumbersOK'
  BY <1>2, WireControl DEF IInv, ControlOK
<1>4. DataOK'
  <2>1. r \in RequestIDs
    BY DEF IInv, DataOK
  <2>2. stdout' \in Seq(RequestIDs \cup {Notification})
    BY <1>1, <2>1 DEF IInv, DataOK
  <2>3. QED
    BY <1>1, <1>2, <2>2 DEF IInv, DataOK
<1>5. ASSUME NEW c \in Clients, at[c] = "read", Underway(id[c]) PROVE Underway(id[c])'
  <2>1. /\ stdin = <<>> /\ working = {id[c]} /\ stdout = <<>> /\ readers = {id[c]}
        /\ mail[id[c]] = Nothing /\ id'[c] = id[c] /\ r = id[c]
    BY <1>2, <1>5 DEF Underway, calling
  <2>2. working' = {} /\ stdout' = <<id[c]>>
    BY <1>1, <2>1, Tuples
  <2>3. QED
    BY <1>2, <2>1, <2>2 DEF Underway
<1>6. Clear => Clear'
  BY DEF Clear
<1>7. quiet' => Undisturbed'
  BY <1>2, <1>5, <1>6, WireQuiet
<1>8. QED
  BY <1>3, <1>4, <1>7 DEF IInv

LEMMA ServerNotifiesStep == IInv /\ ServerNotifies => IInv'
<1> SUFFICES ASSUME IInv, ServerNotifies PROVE IInv'
  OBVIOUS
<1>1. /\ stdout' = <<Notification>> /\ quiet' = FALSE /\ UNCHANGED <<stage, calling, ended>>
      /\ UNCHANGED <<alive, stdin, working, readers, mail, result>>
  BY DEF ServerNotifies, calling
<1>2. ControlOK' /\ Exclusive' /\ NumbersOK'
  BY <1>1, WireControl DEF IInv, ControlOK
<1>3. DataOK'
  BY <1>1 DEF IInv, DataOK
<1>4. QED
  BY <1>1, <1>2, <1>3 DEF IInv

\* What the server had written can still be read; the request it had not answered is lost.
LEMMA ServerExitsStep == IInv /\ ServerExits => IInv'
<1> SUFFICES ASSUME IInv, ServerExits PROVE IInv'
  OBVIOUS
<1>1. /\ alive' = FALSE /\ stdin' = <<>> /\ working' = {} /\ UNCHANGED <<stage, calling, ended>>
      /\ UNCHANGED <<stdout, readers, mail, quiet, result>>
  BY DEF ServerExits, calling, reading
<1>2. ControlOK' /\ Exclusive' /\ NumbersOK'
  BY <1>1, WireControl DEF IInv, ControlOK
<1>3. DataOK'
  BY <1>1 DEF IInv, DataOK
<1>4. ASSUME NEW c \in Clients, at[c] = "read", Underway(id[c]) PROVE Underway(id[c])'
  <2>1. id'[c] = id[c]
    BY <1>1 DEF calling
  <2>2. QED
    BY <1>1, <1>4, <2>1 DEF Underway
<1>5. Clear => Clear'
  BY <1>1 DEF Clear
<1>6. quiet' => Undisturbed'
  BY <1>1, <1>4, <1>5, WireQuiet
<1>7. QED
  BY <1>2, <1>3, <1>6 DEF IInv
-----------------------------------------------------------------------------
(* Client.call. *)

\* Where the client is given up no call is out.
LEMMA DoomedIsIdle ==
  ASSUME IInv, Doomed PROVE \A c \in Clients : at[c] \notin {"lock", "write", "read"}
BY DEF IInv, ControlOK, Doomed, Clients

LEMMA LockStep == ASSUME IInv, NEW c \in Clients, Lock(c) PROVE IInv'
<1>1. /\ at[c] = "lock" /\ mu = Nobody /\ mu' = c /\ nextID' = nextID + 1
      /\ id' = [id EXCEPT ![c] = nextID + 1] /\ at' = [at EXCEPT ![c] = "write"]
      /\ UNCHANGED <<stage, alive, stdin, working, stdout, ended, result, readers, mail, quiet>>
  BY DEF Lock, wire, reading
<1>2. at'[c] = "write" /\ \A d \in Clients : d # c => at'[d] = at[d]
  BY <1>1 DEF IInv, ControlOK
<1>3. ControlOK'
  <2>1. Boot \notin Callers /\ Boot \in Clients /\ Callers \subseteq Clients
    BY McpAssumption DEF McpAssumption, Clients
  <2>2. \A d \in Clients : at'[d] = "idle" <=> at[d] = "idle"
    BY <1>1, <1>2
  <2>3. at' \in [Clients -> {"idle", "lock", "write", "read", "done"}]
    BY <1>1 DEF IInv, ControlOK
  <2>4. QED
    BY <1>1, <2>1, <2>2, <2>3 DEF IInv, ControlOK
<1>4. \A d \in Clients : at[d] \notin {"write", "read"}
  BY <1>1, McpAssumption DEF IInv, Exclusive, McpAssumption, Clients
<1>5. Exclusive'
  BY <1>1, <1>2, <1>4 DEF Exclusive
<1>6. /\ IsFiniteSet(Waiting') /\ Cardinality(Waiting') \in Nat
      /\ nextID' + Cardinality(Waiting') <= MaxCalls
  <2>1. /\ IsFiniteSet(Waiting) /\ nextID + Cardinality(Waiting) <= MaxCalls /\ nextID \in Nat
        /\ Cardinality(Waiting) \in Nat
    BY FS_CardinalityType DEF IInv, NumbersOK
  <2>2. Waiting' = Waiting \ {c}
    BY <1>2 DEF Waiting, Clients
  <2>3. CASE c \in Callers
    <3>1. c \in Waiting
      BY <1>1, <2>3 DEF Waiting
    <3>2. /\ IsFiniteSet(Waiting \ {c}) /\ Cardinality(Waiting \ {c}) = Cardinality(Waiting) - 1
          /\ Cardinality(Waiting \ {c}) \in Nat
      BY <2>1, <3>1, FS_RemoveElement, FS_CardinalityType
    <3>3. QED
      BY <1>1, <2>1, <2>2, <3>2
  <2>4. CASE c = Boot
    <3>1. stage \in {"initializing", "listing"}
      BY <1>1, <2>4 DEF IInv, ControlOK
    <3>2. Waiting = {} /\ nextID <= 1
      BY <1>1, <2>4, <3>1 DEF IInv, ControlOK, NumbersOK, Waiting
    <3>3. Waiting' = {}
      BY <2>2, <3>2
    <3>4. IsFiniteSet(Waiting') /\ Cardinality(Waiting') = 0
      BY <3>3, FS_EmptySet
    <3>5. nextID' + 0 <= MaxCalls
      BY <1>1, <2>1, <3>2, McpAssumption DEF McpAssumption
    <3>6. QED
      BY <3>4, <3>5
  <2>5. QED
    BY <2>3, <2>4 DEF Clients
<1>7. NumbersOK'
  <2>1. /\ nextID \in Nat /\ id \in [Clients -> 0..nextID] /\ readers \subseteq 1..nextID
    BY DEF IInv, NumbersOK
  <2>2. /\ nextID' \in Nat /\ nextID' \in RequestIDs /\ nextID' \notin readers
        /\ 0..nextID \subseteq 0..nextID' /\ nextID' \in 0..nextID' /\ 1..nextID \subseteq 1..nextID'
        /\ nextID' >= 1 /\ nextID' > nextID
    BY <1>1, <1>6, <2>1, McpAssumption DEF RequestIDs, McpAssumption
  <2>3. id' \in [Clients -> 0..nextID'] /\ readers' \subseteq 1..nextID' /\ id'[c] = nextID'
    BY <1>1, <2>1, <2>2
  <2>4. \A r \in RequestIDs : r >= nextID' => mail'[r] = Nothing
    BY <1>1, <2>1 DEF IInv, NumbersOK, RequestIDs
  <2>5. /\ \A d \in Clients : at'[d] \in {"write", "read"} => id'[d] = nextID' /\ nextID' >= 1
        /\ \A d \in Clients : at'[d] = "write" => nextID' \notin readers' /\ mail'[nextID'] = Nothing
    BY <1>1, <1>2, <1>4, <2>2, <2>3, <2>4 DEF RequestIDs
  <2>6. /\ stage' \in {"initializing", "listing"} => c = Boot
        /\ stage' \notin {"off", "notifying"}
    BY <1>1 DEF IInv, ControlOK, Clients
  <2>7. /\ stage' = "initializing" => nextID' = IF at'[Boot] = "lock" THEN 0 ELSE 1
        /\ stage' = "listing" => nextID' = IF at'[Boot] = "lock" THEN 1 ELSE 2
    BY <1>1, <1>2, <2>6 DEF IInv, NumbersOK
  <2>8. \A r \in RequestIDs : r > nextID' => mail'[r] = Nothing
    BY <2>2, <2>4 DEF RequestIDs
  <2>9. QED
    BY <1>6, <2>2, <2>3, <2>5, <2>6, <2>7, <2>8 DEF NumbersOK
<1>8. DataOK'
  BY <1>1 DEF IInv, DataOK
<1>9. ASSUME quiet' PROVE Undisturbed'
  <2>1. Undisturbed /\ ~Doomed
    BY <1>1, <1>9, DoomedIsIdle DEF IInv
  <2>2. Clear /\ ResponseMatchesCall /\ \A d \in Callers : ~ended[d]
    BY <1>4, <2>1 DEF Undisturbed
  <2>3. Clear' /\ \A d \in Callers : ~ended'[d]
    BY <1>1, <2>2 DEF Clear
  <2>4. ResponseMatchesCall'
    BY <1>1, <1>2, <2>2 DEF ResponseMatchesCall, IInv, NumbersOK
  <2>5. \A d \in Clients : at'[d] # "read"
    BY <1>2, <1>4
  <2>6. QED
    BY <2>3, <2>4, <2>5 DEF Undisturbed
<1>10. QED
  BY <1>3, <1>5, <1>7, <1>8, <1>9 DEF IInv

LEMMA WriteStep == ASSUME IInv, NEW c \in Clients, Write(c) PROVE IInv'
<1>1. /\ at[c] = "write" /\ alive /\ stdin' = Append(stdin, id[c])
      /\ at' = [at EXCEPT ![c] = "read"] /\ readers' = readers \cup {id[c]}
      /\ UNCHANGED <<stage, alive, working, stdout, mu, nextID, id, ended, result, mail, quiet>>
  BY DEF Write
<1>2. at'[c] = "read" /\ \A d \in Clients : d # c => at'[d] = at[d]
  BY <1>1 DEF IInv, ControlOK
<1>3. /\ mu = c /\ \A d \in Clients : at[d] \in {"read", "write"} => d = c
      /\ id[c] = nextID /\ nextID \in RequestIDs
  BY <1>1, MuOfReader
<1>4. ControlOK'
  <2>1. Boot \in Clients /\ Callers \subseteq Clients
    BY DEF Clients
  <2>2. \A d \in Clients : at'[d] = "idle" <=> at[d] = "idle"
    BY <1>1, <1>2
  <2>3. at' \in [Clients -> {"idle", "lock", "write", "read", "done"}]
    BY <1>1 DEF IInv, ControlOK
  <2>4. QED
    BY <1>1, <2>1, <2>2, <2>3 DEF IInv, ControlOK
<1>5. Exclusive'
  BY <1>1, <1>2 DEF IInv, Exclusive
<1>6. NumbersOK'
  <2>1. Waiting' = Waiting /\ (at'[Boot] = "lock" <=> at[Boot] = "lock")
    BY <1>1, <1>2 DEF Waiting, Clients
  <2>2. readers' \subseteq 1..nextID
    BY <1>1, <1>3 DEF IInv, NumbersOK, RequestIDs
  <2>3. /\ \A d \in Clients : at'[d] \in {"write", "read"} => id'[d] = nextID' /\ nextID' >= 1
        /\ \A d \in Clients : at'[d] # "write"
    BY <1>1, <1>2, <1>3 DEF RequestIDs
  <2>4. QED
    BY <1>1, <2>1, <2>2, <2>3 DEF IInv, NumbersOK
<1>7. DataOK'
  <2>1. stdin' \in Seq(RequestIDs \cup {Notification})
    BY <1>1, <1>3 DEF IInv, DataOK
  <2>2. QED
    BY <1>1, <2>1 DEF IInv, DataOK
<1>8. ASSUME quiet' PROVE Undisturbed'
  <2>1. Undisturbed /\ ~Doomed
    BY <1>1, <1>8, DoomedIsIdle DEF IInv
  <2>2. \A d \in Clients : at[d] # "read"
    BY <1>1, <1>3
  <2>3. Clear /\ ResponseMatchesCall /\ \A d \in Callers : ~ended[d]
    BY <2>1, <2>2 DEF Undisturbed
  <2>4. mail[id[c]] = Nothing
    BY <1>1, <1>3 DEF IInv, NumbersOK
  <2>5. stdin' = <<id[c]>> \/ stdin' = <<Notification, id[c]>>
    <3>1. id[c] \in Int /\ Notification \in Int
      BY <1>3 DEF Notification, RequestIDs
    <3>2. Append(<<>>, id[c]) = <<id[c]>> /\ Append(<<Notification>>, id[c]) = <<Notification, id[c]>>
      BY <3>1, Tuples, AppendToOne
    <3>3. QED
      BY <1>1, <2>3, <3>2 DEF Clear
  <2>6. Underway(id[c])'
    BY <1>1, <2>3, <2>4, <2>5 DEF Clear, Underway
  <2>7. ResponseMatchesCall'
    BY <1>1, <1>2, <2>3 DEF ResponseMatchesCall
  <2>8. QED
    BY <1>1, <1>2, <2>3, <2>6, <2>7 DEF Undisturbed
<1>9. QED
  BY <1>4, <1>5, <1>6, <1>7, <1>8 DEF IInv

\* A call that returns releases the mutex, with whatever result.
LEMMA ReturnKeeps ==
  ASSUME IInv, NEW c \in Clients, at[c] \in {"write", "read"},
         NEW what \in RequestIDs \cup {Nothing, Failed, ContextEnded}, Return(c, what),
         UNCHANGED <<stage, alive, wire, nextID, id, ended, reading>>
  PROVE  ControlOK' /\ Exclusive' /\ NumbersOK' /\ DataOK'
<1>1. /\ at' = [at EXCEPT ![c] = "done"] /\ result' = [result EXCEPT ![c] = what] /\ mu' = Nobody
      /\ UNCHANGED <<stage, alive, stdin, working, stdout, nextID, id, ended, readers, mail, quiet>>
  BY DEF Return, wire, reading
<1>2. at'[c] = "done" /\ \A d \in Clients : d # c => at'[d] = at[d]
  BY <1>1 DEF IInv, ControlOK
<1>3. \A d \in Clients : at'[d] \notin {"write", "read"}
  BY <1>2, MuOfReader
<1>4. ControlOK'
  <2>1. Boot \in Clients /\ Callers \subseteq Clients
    BY DEF Clients
  <2>2. \A d \in Clients : at'[d] = "idle" <=> at[d] = "idle"
    BY <1>1, <1>2
  <2>3. at' \in [Clients -> {"idle", "lock", "write", "read", "done"}]
    BY <1>1 DEF IInv, ControlOK
  <2>4. QED
    BY <1>1, <2>1, <2>2, <2>3 DEF IInv, ControlOK
<1>5. Exclusive'
  BY <1>1, <1>3, McpAssumption DEF Exclusive, McpAssumption, Clients
<1>6. NumbersOK'
  <2>1. Waiting' = Waiting /\ (at'[Boot] = "lock" <=> at[Boot] = "lock")
    BY <1>2 DEF Waiting, Clients
  <2>2. QED
    BY <1>1, <1>3, <2>1 DEF IInv, NumbersOK
<1>7. DataOK'
  BY <1>1 DEF IInv, DataOK
<1>8. QED
  BY <1>4, <1>5, <1>6, <1>7

LEMMA WriteFailsStep == ASSUME IInv, NEW c \in Clients, WriteFails(c) PROVE IInv'
<1>1. /\ at[c] = "write" /\ Return(c, Failed)
      /\ UNCHANGED <<stage, alive, wire, nextID, id, ended, reading>>
      /\ UNCHANGED <<stage, alive, stdin, working, stdout, nextID, id, ended, readers, mail, quiet>>
  BY DEF WriteFails, wire, reading
<1>2. /\ at'[c] = "done" /\ \A d \in Clients : d # c => at'[d] = at[d] /\ result'[d] = result[d]
      /\ result'[c] = Failed
  BY <1>1 DEF IInv, ControlOK, DataOK, Return
<1>3. ASSUME quiet' PROVE Undisturbed'
  <2>1. Undisturbed /\ ~Doomed
    BY <1>1, <1>3, DoomedIsIdle DEF IInv
  <2>2. \A d \in Clients : at[d] # "read"
    BY <1>1, MuOfReader
  <2>3. Clear /\ ResponseMatchesCall /\ \A d \in Callers : ~ended[d]
    BY <2>1, <2>2 DEF Undisturbed
  <2>4. Clear' /\ (\A d \in Callers : ~ended'[d]) /\ \A d \in Clients : at'[d] # "read"
    BY <1>1, <1>2, <2>2, <2>3 DEF Clear
  <2>5. ResponseMatchesCall'
    BY <1>1, <1>2, <2>3 DEF ResponseMatchesCall, Failed
  <2>6. QED
    BY <2>4, <2>5 DEF Undisturbed
<1>4. QED
  BY <1>1, <1>3, ReturnKeeps DEF IInv

\* While quiet, what was delivered is this call's response, and nothing is left behind it.
LEMMA TakeResponseStep == ASSUME IInv, NEW c \in Clients, TakeResponse(c) PROVE IInv'
<1> DEFINE what == IF mail[id[c]] = Notification THEN Failed ELSE mail[id[c]]
<1>1. /\ at[c] = "read" /\ mail[id[c]] # Nothing /\ Return(c, what)
      /\ UNCHANGED <<stage, alive, wire, nextID, id, ended, reading>>
      /\ UNCHANGED <<stage, alive, stdin, working, stdout, nextID, id, ended, readers, mail, quiet>>
  BY DEF TakeResponse, wire, reading
<1>2. id[c] \in RequestIDs /\ \A d \in Clients : at[d] = "read" => d = c
  BY <1>1, MuOfReader
<1>3. what \in RequestIDs \cup {Nothing, Failed, ContextEnded}
  BY <1>2 DEF IInv, DataOK
<1> HIDE DEF what
<1>4. /\ at'[c] = "done" /\ \A d \in Clients : d # c => at'[d] = at[d] /\ result'[d] = result[d]
      /\ result'[c] = what
  BY <1>1 DEF IInv, ControlOK, DataOK, Return
<1>5. ASSUME quiet' PROVE Undisturbed'
  <2>1. Undisturbed /\ ~Doomed
    BY <1>1, <1>5, DoomedIsIdle DEF IInv
  <2>2. Underway(id[c]) /\ ResponseMatchesCall /\ \A d \in Callers : ~ended[d]
    BY <1>1, <1>2, <2>1 DEF Undisturbed
  <2>3. /\ stdin = <<>> /\ working = {} /\ stdout = <<>> /\ readers = {}
        /\ mail[id[c]] \in {id[c], Failed}
    BY <1>1, <2>2 DEF Underway
  <2>4. what \in {id[c], Failed}
    BY <2>3 DEF what
  <2>5. Clear' /\ (\A d \in Callers : ~ended'[d]) /\ \A d \in Clients : at'[d] # "read"
    BY <1>1, <1>2, <1>4, <2>2, <2>3 DEF Clear
  <2>6. ResponseMatchesCall'
    BY <1>1, <1>4, <2>2, <2>4 DEF ResponseMatchesCall, Failed
  <2>7. QED
    BY <2>5, <2>6 DEF Undisturbed
<1>6. QED
  BY <1>1, <1>3, <1>5, ReturnKeeps DEF IInv

\* While quiet, only Boot gives up, and the client with it.
LEMMA GiveUpStep == ASSUME IInv, NEW c \in Clients, GiveUp(c) PROVE IInv'
<1>1. /\ at[c] = "read" /\ ended[c] /\ Return(c, ContextEnded)
      /\ UNCHANGED <<stage, alive, wire, nextID, id, ended, reading>>
      /\ UNCHANGED <<stage, alive, nextID, id, ended, quiet>>
  BY DEF GiveUp, reading
<1>2. /\ at'[c] = "done" /\ \A d \in Clients : d # c => at'[d] = at[d] /\ result'[d] = result[d]
      /\ result'[c] = ContextEnded
  BY <1>1 DEF IInv, ControlOK, DataOK, Return
<1>3. ASSUME quiet' PROVE Undisturbed'
  <2>1. Undisturbed
    BY <1>1, <1>3 DEF IInv
  <2>2. c = Boot
    BY <1>1, <2>1 DEF Undisturbed, Clients
  <2>3. stage \in {"initializing", "listing"}
    BY <1>1, <2>2 DEF IInv, ControlOK
  <2>4. Doomed'
    BY <1>1, <1>2, <2>2, <2>3 DEF Doomed, ContextEnded
  <2>5. ResponseMatchesCall'
    BY <1>1, <1>2, <2>1 DEF Undisturbed, ResponseMatchesCall, ContextEnded
  <2>6. QED
    BY <1>1, <2>1, <2>4, <2>5 DEF Undisturbed
<1>4. QED
  BY <1>1, <1>3, ReturnKeeps DEF IInv
\* The context of a call ends.
LEMMA EndContextStep == ASSUME IInv, NEW c \in Clients, EndContext(c) PROVE IInv'
<1>1. /\ ended' = [ended EXCEPT ![c] = TRUE] /\ quiet' = (quiet /\ c = Boot)
      /\ UNCHANGED <<stage, alive, stdin, working, stdout, at, id, result, mu, nextID, readers, mail>>
  BY DEF EndContext, wire, calling
<1>2. ControlOK'
  <2>1. ended' \in [Clients -> BOOLEAN]
    BY <1>1 DEF IInv, ControlOK
  <2>2. quiet' \in BOOLEAN
    BY <1>1
  <2>3. QED
    BY <1>1, <2>1, <2>2 DEF IInv, ControlOK
<1>3. Exclusive' /\ NumbersOK' /\ DataOK'
  BY <1>1 DEF IInv, Exclusive, NumbersOK, DataOK, Waiting
<1>4. ASSUME quiet' PROVE Undisturbed'
  <2>1. Undisturbed /\ c = Boot
    BY <1>1, <1>4 DEF IInv
  <2>2. \A d \in Callers : ~ended'[d]
    BY <1>1, <2>1, McpAssumption DEF Undisturbed, McpAssumption, IInv, ControlOK, Clients
  <2>3. (Doomed' <=> Doomed) /\ (Clear' <=> Clear) /\ (ResponseMatchesCall' <=> ResponseMatchesCall)
    BY <1>1 DEF Doomed, Clear, ResponseMatchesCall
  <2>4. \A d \in Clients : Underway(id[d])' <=> Underway(id[d])
    BY <1>1 DEF Underway
  <2>5. QED
    BY <1>1, <2>1, <2>2, <2>3, <2>4 DEF Undisturbed
<1>5. QED
  BY <1>2, <1>3, <1>4 DEF IInv

LEMMA CallStepKeeps == ASSUME IInv, NEW c \in Clients, CallStep(c) PROVE IInv'
BY LockStep, WriteStep, WriteFailsStep, TakeResponseStep, GiveUpStep DEF CallStep
-----------------------------------------------------------------------------
(* Start, ListTools, Close, and a tool's call. *)

\* A client that failed or never started is given up, whatever is left on the wire.
LEMMA FailedKeeps ==
  ASSUME IInv, stage \notin {"ready", "closed"}, stage' = "failed", at'[Boot] = "idle",
         at' \in [Clients -> {"idle", "lock", "write", "read", "done"}],
         \A c \in Callers : at'[c] = at[c], at[Boot] \notin {"write", "read"},
         UNCHANGED <<id, result, mu, nextID, ended, readers, mail, quiet>>,
         alive' \in BOOLEAN, DataOK'
  PROVE  IInv'
<1>1. \A c \in Callers : at[c] = "idle"
  BY DEF IInv, ControlOK
<1>2. \A c \in Clients : at'[c] = "idle" /\ at[c] \notin {"write", "read"}
  BY <1>1 DEF Clients
<1>3. ControlOK'
  BY <1>2 DEF IInv, ControlOK, Clients, Stages
<1>4. Exclusive'
  BY <1>2 DEF IInv, Exclusive
<1>5. NumbersOK'
  <2>1. Waiting' = {} /\ Waiting = {}
    BY <1>1, <1>2 DEF Waiting, Clients
  <2>2. QED
    BY <1>2, <2>1 DEF IInv, NumbersOK
<1>6. quiet' => Undisturbed'
  BY <1>2 DEF IInv, Undisturbed, Doomed, ResponseMatchesCall
<1>7. QED
  BY <1>3, <1>4, <1>5, <1>6 DEF IInv

LEMMA KillKeepsData == IInv /\ Kill /\ UNCHANGED <<result, mail>> => alive' \in BOOLEAN /\ DataOK'
<1> SUFFICES ASSUME IInv, Kill, UNCHANGED <<result, mail>> PROVE alive' \in BOOLEAN /\ DataOK'
  OBVIOUS
<1>1. alive' = FALSE
  BY DEF Kill
<1>2. alive' \in BOOLEAN
  BY <1>1
<1>3. DataOK'
  BY DEF IInv, DataOK, Kill
<1>4. QED
  BY <1>2, <1>3

\* Boot's next request: the handshake's, or tools/list's.
LEMMA BeginBootKeeps ==
  ASSUME IInv, Begin(Boot), UNCHANGED <<id, mu, nextID, readers, mail, quiet>>,
         \/ stage = "off" /\ stage' = "initializing"
         \/ stage = "notifying" /\ stage' = "listing",
         alive' = TRUE, stdin' \in Seq(RequestIDs \cup {Notification}),
         UNCHANGED <<working, stdout>>, Clear => Clear'
  PROVE  IInv'
<1>1. /\ at' = [at EXCEPT ![Boot] = "lock"] /\ ended' = [ended EXCEPT ![Boot] = FALSE]
      /\ result' = [result EXCEPT ![Boot] = Nothing]
  BY DEF Begin
<1>2. /\ \A c \in Clients : at[c] = "idle"
      /\ Boot \in Clients /\ Boot \notin Callers /\ Callers \subseteq Clients
  BY McpAssumption DEF IInv, ControlOK, Clients, McpAssumption
<1>3. /\ at'[Boot] = "lock" /\ result'[Boot] = Nothing
      /\ \A c \in Callers : at'[c] = "idle" /\ ended'[c] = ended[c]
  BY <1>1, <1>2 DEF IInv, ControlOK, DataOK
<1>4. ControlOK'
  <2>1. /\ at' \in [Clients -> {"idle", "lock", "write", "read", "done"}]
        /\ ended' \in [Clients -> BOOLEAN]
    BY <1>1 DEF IInv, ControlOK
  <2>2. quiet' \in BOOLEAN /\ stage' \in Stages
    BY DEF IInv, ControlOK, Stages
  <2>3. QED
    BY <1>3, <2>1, <2>2 DEF ControlOK
<1>5. \A c \in Clients : at'[c] \notin {"write", "read"}
  BY <1>3 DEF Clients
<1>6. Exclusive'
  BY <1>2, <1>5 DEF IInv, Exclusive
<1>7. NumbersOK'
  <2>1. Waiting' = {} /\ Waiting = {}
    BY <1>2, <1>3 DEF Waiting
  <2>2. QED
    BY <1>3, <1>5, <2>1 DEF IInv, NumbersOK
<1>8. DataOK'
  BY <1>1 DEF IInv, DataOK
<1>9. ASSUME quiet' PROVE Undisturbed'
  <2>1. Undisturbed /\ ~Doomed
    BY <1>9 DEF IInv, Doomed
  <2>2. Clear
    BY <1>2, <2>1 DEF Undisturbed
  <2>3. Clear'
    BY <2>2
  <2>4. ResponseMatchesCall'
    BY <1>3 DEF ResponseMatchesCall, Clients
  <2>5. QED
    BY <1>3, <1>5, <2>1, <2>3, <2>4 DEF Undisturbed
<1>10. QED
  BY <1>4, <1>6, <1>7, <1>8, <1>9 DEF IInv

LEMMA StartStep == IInv /\ Start => IInv'
<1> SUFFICES ASSUME IInv, Start PROVE IInv'
  OBVIOUS
<1>1. /\ stage = "off" /\ UNCHANGED <<id, mu, nextID, readers, mail, quiet>>
      /\ UNCHANGED <<stdin, working, stdout>>
  BY DEF Start, wire, reading
<1>2. CASE stage' = "initializing" /\ alive' = TRUE /\ Begin(Boot)
  <2>1. Clear => Clear'
    BY <1>1, <1>2 DEF Clear
  <2>2. stdin' \in Seq(RequestIDs \cup {Notification})
    BY <1>1 DEF IInv, DataOK
  <2>3. QED
    BY <1>1, <1>2, <2>1, <2>2, BeginBootKeeps
<1>3. CASE stage' = "failed" /\ UNCHANGED <<alive, at, ended, result>>
  <2>1. alive' \in BOOLEAN /\ DataOK'
    BY <1>1, <1>3 DEF IInv, ControlOK, DataOK
  <2>2. QED
    BY <1>1, <1>3, <2>1, FailedKeeps DEF IInv, ControlOK
<1>4. QED
  BY <1>1, <1>2, <1>3 DEF Start

\* The connection leads on only on a good response, and then the wire is clear.
LEMMA ProceedStep ==
  ASSUME IInv, NEW from, NEW to, Proceed(from, to),
         \/ from = "initializing" /\ to = "notifying"
         \/ from = "listing" /\ to = "ready"
  PROVE  IInv'
<1>1. /\ stage = from /\ at[Boot] = "done" /\ at' = [at EXCEPT ![Boot] = "idle"]
      /\ UNCHANGED <<id, result, mu, nextID, ended, readers, mail, quiet>>
  BY DEF Proceed, reading
<1>2. /\ Boot \in Clients /\ Boot \notin Callers /\ Callers \subseteq Clients
      /\ \A c \in Callers : at[c] = "idle"
  BY <1>1, McpAssumption DEF IInv, ControlOK, Clients, McpAssumption
<1>3. /\ at' \in [Clients -> {"idle", "lock", "write", "read", "done"}] /\ at'[Boot] = "idle"
      /\ \A c \in Callers : at'[c] = at[c]
  BY <1>1, <1>2 DEF IInv, ControlOK
<1>4. CASE result[Boot] > 0 /\ stage' = to /\ UNCHANGED <<alive, wire>>
  <2>1. UNCHANGED <<alive, stdin, working, stdout>>
    BY <1>4 DEF wire
  <2>2. \A c \in Clients : at'[c] = "idle" /\ at[c] \notin {"write", "read"}
    BY <1>1, <1>2, <1>3 DEF Clients
  <2>3. ControlOK'
    BY <1>1, <1>2, <1>3, <1>4, <2>1, <2>2 DEF IInv, ControlOK, Stages
  <2>4. Exclusive'
    BY <1>1, <2>2 DEF IInv, Exclusive
  <2>5. NumbersOK'
    <3>1. Waiting' = {} /\ Waiting = {}
      BY <1>2, <2>2 DEF Waiting
    <3>2. QED
      BY <1>1, <1>4, <2>2, <3>1 DEF IInv, NumbersOK
  <2>6. DataOK'
    BY <1>1, <2>1 DEF IInv, DataOK
  <2>7. ASSUME quiet' PROVE Undisturbed'
    <3>1. Undisturbed /\ ~Doomed
      BY <1>1, <1>4, <2>7 DEF IInv, Doomed
    <3>2. Clear
      BY <2>2, <3>1 DEF Undisturbed
    <3>3. Clear'
      BY <1>1, <1>4, <2>1, <3>2 DEF Clear
    <3>4. ResponseMatchesCall'
      BY <2>2 DEF ResponseMatchesCall
    <3>5. QED
      BY <1>1, <2>2, <3>1, <3>3, <3>4 DEF Undisturbed
  <2>8. QED
    BY <2>3, <2>4, <2>5, <2>6, <2>7 DEF IInv
<1>5. CASE stage' = "failed" /\ Kill
  BY <1>1, <1>3, <1>5, FailedKeeps, KillKeepsData
<1>6. QED
  BY <1>4, <1>5 DEF Proceed

LEMMA NotifyStep == IInv /\ Notify => IInv'
<1> SUFFICES ASSUME IInv, Notify PROVE IInv'
  OBVIOUS
<1>1. /\ stage = "notifying" /\ UNCHANGED <<id, mu, nextID, readers, mail, quiet>>
  BY DEF Notify, reading
<1>2. CASE /\ alive /\ stdin' = Append(stdin, Notification) /\ stage' = "listing" /\ Begin(Boot)
           /\ UNCHANGED <<alive, working, stdout>>
  <2>1. Clear => Clear'
    <3> SUFFICES ASSUME Clear PROVE Clear'
      OBVIOUS
    <3>1. stdin' = <<Notification>>
      BY <1>1, <1>2, Tuples DEF Clear
    <3>2. QED
      BY <1>1, <1>2, <3>1 DEF Clear
  <2>2. stdin' \in Seq(RequestIDs \cup {Notification})
    BY <1>2 DEF IInv, DataOK
  <2>3. alive' = TRUE
    BY <1>2 DEF IInv, ControlOK
  <2>4. QED
    BY <1>1, <1>2, <2>1, <2>2, <2>3, BeginBootKeeps
<1>3. CASE stage' = "failed" /\ Kill /\ UNCHANGED <<at, ended, result>>
  BY <1>1, <1>3, FailedKeeps, KillKeepsData DEF IInv, ControlOK
<1>4. QED
  BY <1>2, <1>3 DEF Notify

\* A call that Close cuts short has lost its request, or has its response.
LEMMA CloseStep == IInv /\ Close => IInv'
<1> SUFFICES ASSUME IInv, Close PROVE IInv'
  OBVIOUS
<1>1. /\ stage = "ready" /\ stage' = "closed" /\ alive' = FALSE
      /\ stdin' = <<>> /\ working' = {} /\ stdout' = <<>>
      /\ UNCHANGED <<at, id, result, mu, nextID, ended, readers, mail, quiet>>
  BY DEF Close, Kill, calling, reading
<1>2. ControlOK' /\ Exclusive' /\ DataOK'
  <2>1. alive' \in BOOLEAN /\ stage' \in Stages
    BY <1>1 DEF Stages
  <2>2. ControlOK'
    BY <1>1, <2>1 DEF IInv, ControlOK
  <2>3. Exclusive' /\ DataOK'
    BY <1>1 DEF IInv, Exclusive, DataOK
  <2>4. QED
    BY <2>2, <2>3
<1>3. NumbersOK'
  BY <1>1 DEF IInv, NumbersOK, Waiting
<1>4. ASSUME quiet' PROVE Undisturbed'
  <2>1. Undisturbed /\ ~Doomed
    BY <1>1, <1>4 DEF IInv, Doomed
  <2>2. ResponseMatchesCall' /\ \A c \in Callers : ~ended'[c]
    BY <1>1, <2>1 DEF Undisturbed, ResponseMatchesCall
  <2>3. ASSUME NEW c \in Clients, at[c] = "read", Underway(id[c])
        PROVE  at'[c] = "read" /\ Underway(id[c])'
    BY <1>1, <2>3 DEF Underway
  <2>4. Clear => Clear'
    BY <1>1 DEF Clear
  <2>5. QED
    BY <1>1, <2>1, <2>2, <2>3, <2>4 DEF Undisturbed
<1>5. QED
  BY <1>2, <1>3, <1>4 DEF IInv

LEMMA CallBegins == ASSUME IInv, NEW c \in Callers, Call(c) PROVE IInv'
<1>1. /\ stage = "ready" /\ at[c] \in {"idle", "done"}
      /\ at' = [at EXCEPT ![c] = "lock"] /\ ended' = [ended EXCEPT ![c] = FALSE]
      /\ result' = [result EXCEPT ![c] = Nothing]
      /\ UNCHANGED <<stage, alive, stdin, working, stdout, id, mu, nextID, readers, mail, quiet>>
  BY DEF Call, Begin, wire, reading
<1>2. nextID + Cardinality(Waiting) < MaxCalls
  BY DEF Call, Waiting
<1>3. c \in Clients /\ c # Boot /\ Boot \in Clients
  BY McpAssumption DEF Clients, McpAssumption
<1>4. /\ at'[c] = "lock" /\ result'[c] = Nothing /\ ~ended'[c]
      /\ \A d \in Clients : d # c => /\ at'[d] = at[d] /\ result'[d] = result[d]
                                     /\ ended'[d] = ended[d]
  BY <1>1, <1>3 DEF IInv, ControlOK, DataOK
<1>5. ControlOK'
  <2>1. /\ at' \in [Clients -> {"idle", "lock", "write", "read", "done"}]
        /\ ended' \in [Clients -> BOOLEAN]
    BY <1>1 DEF IInv, ControlOK
  <2>2. QED
    BY <1>1, <1>3, <1>4, <2>1 DEF IInv, ControlOK
<1>6. \A d \in Clients : at'[d] \in {"write", "read"} => d # c /\ at'[d] = at[d]
  BY <1>4
<1>7. Exclusive'
  BY <1>1, <1>3, <1>4 DEF IInv, Exclusive
<1>8. NumbersOK'
  <2>1. Waiting' = Waiting \cup {c} /\ c \notin Waiting
    BY <1>1, <1>3, <1>4 DEF Waiting, Clients
  <2>2. IsFiniteSet(Waiting) /\ nextID \in Nat /\ MaxCalls \in Nat /\ Cardinality(Waiting) \in Nat
    BY NextIDInRange DEF IInv, NumbersOK
  <2>3. IsFiniteSet(Waiting') /\ Cardinality(Waiting') = Cardinality(Waiting) + 1
    BY <2>1, <2>2, FS_AddElement
  <2>4. nextID' + Cardinality(Waiting') <= MaxCalls
    BY <1>1, <1>2, <2>2, <2>3
  <2>5. QED
    BY <1>1, <1>6, <2>2, <2>3, <2>4 DEF IInv, NumbersOK
<1>9. DataOK'
  BY <1>1 DEF IInv, DataOK
<1>10. ASSUME quiet' PROVE Undisturbed'
  <2>1. Undisturbed /\ ~Doomed
    BY <1>1, <1>10 DEF IInv, Doomed
  <2>2. \A d \in Callers : ~ended'[d]
    BY <1>4, <2>1 DEF Undisturbed, Clients
  <2>3. ResponseMatchesCall'
    BY <1>1, <1>4, <2>1 DEF Undisturbed, ResponseMatchesCall
  <2>4. Clear' <=> Clear
    BY <1>1 DEF Clear
  <2>5. \A d \in Clients : Underway(id[d])' <=> Underway(id[d])
    BY <1>1 DEF Underway
  <2>6. \A d \in Clients : at'[d] = "read" <=> at[d] = "read"
    BY <1>1, <1>4
  <2>7. QED
    BY <2>1, <2>2, <2>3, <2>4, <2>5, <2>6 DEF Undisturbed
<1>11. QED
  BY <1>5, <1>7, <1>8, <1>9, <1>10 DEF IInv
-----------------------------------------------------------------------------
(* The invariant, and what follows from it. *)

\* Before Start nothing is under way.
THEOREM InitIInv == Init => IInv
<1> SUFFICES ASSUME Init PROVE IInv
  OBVIOUS
<1>1. ControlOK
  <2>1. alive \in BOOLEAN /\ quiet \in BOOLEAN /\ stage \in Stages /\ stage = "off"
    BY DEF Init, Stages
  <2>2. /\ at \in [Clients -> {"idle", "lock", "write", "read", "done"}]
        /\ \A c \in Clients : at[c] = "idle"
    BY DEF Init
  <2>3. ended \in [Clients -> BOOLEAN]
    BY DEF Init
  <2>4. QED
    BY <2>1, <2>2, <2>3 DEF ControlOK, Clients
<1>2. Exclusive
  BY McpAssumption DEF Init, Exclusive, McpAssumption, Clients
<1>3. NumbersOK
  <2>1. Waiting = {}
    BY DEF Init, Waiting, Clients
  <2>2. IsFiniteSet(Waiting) /\ Cardinality(Waiting) = 0
    BY <2>1, FS_EmptySet
  <2>3. QED
    BY <2>2, McpAssumption DEF Init, NumbersOK, McpAssumption, RequestIDs
<1>4. DataOK
  BY DEF Init, DataOK, RequestIDs
<1>5. Undisturbed
  BY DEF Init, Undisturbed, Clear, ResponseMatchesCall, Clients
<1>6. QED
  BY <1>1, <1>2, <1>3, <1>4, <1>5 DEF IInv

\* No step of a call, of a read goroutine, of the connection or of the server leaves the
\* invariant.
THEOREM StepIInv == IInv /\ [Next]_vars => IInv'
<1> SUFFICES ASSUME IInv, [Next]_vars PROVE IInv'
  OBVIOUS
<1>1. ASSUME NEW c \in Clients, CallStep(c) \/ EndContext(c) PROVE IInv'
  BY <1>1, CallStepKeeps, EndContextStep
<1>2. ASSUME NEW r \in 1..MaxCalls, ReadStep(r) PROVE IInv'
  BY <1>2, ReadStepKeeps DEF RequestIDs
<1>3. CASE BootStep
  BY <1>3, StartStep, ProceedStep, NotifyStep DEF BootStep
<1>4. ASSUME NEW c \in Callers, Call(c) PROVE IInv'
  BY <1>4, CallBegins
<1>5. CASE UNCHANGED vars
  <2>1. UNCHANGED <<stage, alive, stdin, working, stdout, at, id, result, mu, nextID, ended,
                    readers, mail, quiet>>
    BY <1>5 DEF vars, wire, calling, reading
  <2>2. ControlOK' /\ Exclusive' /\ NumbersOK' /\ DataOK'
    BY <2>1 DEF IInv, ControlOK, Exclusive, NumbersOK, DataOK, Waiting
  <2>3. quiet' => Undisturbed'
    BY <2>1 DEF IInv, Undisturbed, Doomed, Underway, Clear, ResponseMatchesCall
  <2>4. QED
    BY <2>2, <2>3 DEF IInv
<1>6. QED
  BY <1>1, <1>2, <1>3, <1>4, <1>5, CloseStep, ServerReadsStep, ServerAnswersStep,
     ServerNotifiesStep, ServerExitsStep DEF Next

LEMMA Invariant == Spec => []IInv
BY InitIInv, StepIInv, PTL DEF Spec

\* Every variable keeps its type: no request's ID is beyond those the callers may use.
THEOREM TypeCorrect == Spec => []TypeOK
<1>1. IInv => TypeOK
  <2> SUFFICES ASSUME IInv PROVE TypeOK
    OBVIOUS
  <2>1. nextID \in 0..MaxCalls
    BY NextIDInRange
  <2>2. id \in [Clients -> 0..MaxCalls] /\ readers \subseteq RequestIDs
    <3>1. MaxCalls \in Nat /\ 0..nextID \subseteq 0..MaxCalls /\ 1..nextID \subseteq 1..MaxCalls
      BY <2>1, NextIDInRange
    <3>2. QED
      BY <3>1 DEF IInv, NumbersOK, RequestIDs
  <2>3. QED
    BY <2>1, <2>2 DEF IInv, ControlOK, Exclusive, DataOK, TypeOK
<1>2. QED
  BY <1>1, Invariant, PTL

\* However many callers share the client, and although no ID is ever compared, each call
\* gets the response to its own request for as long as nothing but requests and responses
\* is sent and no tool call's context has ended.
THEOREM ResponsesMatch == Spec => []QuietResponsesMatch
<1>1. IInv => QuietResponsesMatch
  BY DEF IInv, Undisturbed, QuietResponsesMatch
<1>2. QED
  BY <1>1, Invariant, PTL

\* At any time, disturbed or not, at most one call holds the pipe.
THEOREM OneCallAtATime ==
  Spec => [](\A c, d \in Clients :
               at[c] \in {"write", "read"} /\ at[d] \in {"write", "read"} => c = d)
<1>1. IInv => \A c, d \in Clients :
                at[c] \in {"write", "read"} /\ at[d] \in {"write", "read"} => c = d
  BY DEF IInv, Exclusive
<1>2. QED
  BY <1>1, Invariant, PTL
=============================================================================
