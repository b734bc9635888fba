---------------------------- MODULE WebServerProofs ----------------------------
(***************************************************************************)
(* Theorems about the web control server (WebServer), for any number of      *)
(* browsers, child processes and pending messages.                           *)
(***************************************************************************)
EXTENDS WebServer, TLAPS, SequenceTheorems

(* What a list of children holds, and that it holds nothing twice.           *)
Elems(list)    == {list[i] : i \in 1 .. Len(list)}
Distinct(list) == \A i, j \in 1 .. Len(list) : list[i] = list[j] => i = j

-------------------------------------------------------------------------------
(* Lemmas on the three ways a list of children changes.                      *)

(* A new child is pushed.                                                    *)
LEMMA Pushed ==
    ASSUME NEW list \in Seq(Proc), NEW p \in Proc, Distinct(list), p \notin Elems(list)
    PROVE  /\ Append(list, p) \in Seq(Proc)
           /\ Distinct(Append(list, p))
           /\ Elems(Append(list, p)) = Elems(list) \cup {p}
  <1>1. /\ Append(list, p) \in Seq(Proc)
        /\ Len(Append(list, p)) = Len(list) + 1
        /\ \A i \in 1 .. Len(list) : Append(list, p)[i] = list[i]
        /\ Append(list, p)[Len(list) + 1] = p
        /\ Len(list) \in Nat
    BY AppendProperties, LenProperties
  <1>2. \A i \in 1 .. Len(list) : list[i] # p
    BY DEF Elems
  <1>3. Distinct(Append(list, p))
    BY <1>1, <1>2 DEF Distinct
  <1>4. Elems(Append(list, p)) = Elems(list) \cup {p}
    BY <1>1 DEF Elems
  <1>5. QED
    BY <1>1, <1>3, <1>4

(* Every second child stays behind a Cancel.                                 *)
LEMMA Halved ==
    ASSUME NEW n \in Nat, NEW i \in 1 .. n \div 2
    PROVE  2 * i \in 1 .. n
  OBVIOUS

LEMMA HalfIsNat ==
    ASSUME NEW n \in Nat
    PROVE  n \div 2 \in Nat
  OBVIOUS

LEMMA Cancelled ==
    ASSUME NEW list \in Seq(Proc), Distinct(list)
    PROVE  /\ PassedOver(list) \in Seq(Proc)
           /\ Distinct(PassedOver(list))
           /\ Elems(PassedOver(list)) \subseteq Elems(list)
           /\ Signalled(list) \subseteq Elems(list)
           /\ list # <<>> => list[1] \in Signalled(list)
  <1> DEFINE new == PassedOver(list)
             half == Len(list) \div 2
  <1>1. Len(list) \in Nat /\ \A i \in 1 .. Len(list) : list[i] \in Proc
    BY LenProperties, ElementOfSeq
  <1>2. half \in Nat /\ \A i \in 1 .. half : 2 * i \in 1 .. Len(list)
    BY <1>1, Halved, HalfIsNat
  <1>3. new = [i \in 1 .. half |-> list[2 * i]]
    BY DEF PassedOver
  <1> HIDE DEF half, new
  <1>4. new \in [1 .. half -> Proc]
    BY <1>1, <1>2, <1>3
  <1>5. new \in Seq(Proc)
    BY <1>2, <1>4, SeqDef
  <1>6. Len(new) = half
    BY <1>2, <1>3, <1>4, <1>5, LenProperties
  <1>7. \A i \in 1 .. Len(new) : new[i] = list[2 * i] /\ 2 * i \in 1 .. Len(list) /\ i \in Nat
    BY <1>2, <1>3, <1>6
  <1>8. Distinct(new)
    <2>1. SUFFICES ASSUME NEW i \in 1 .. Len(new), NEW j \in 1 .. Len(new), new[i] = new[j]
                   PROVE  i = j
      BY DEF Distinct
    <2>2. 2 * i = 2 * j
      BY <1>7, <2>1 DEF Distinct
    <2>3. QED
      BY <2>2, <1>7
  <1>9. Elems(new) \subseteq Elems(list)
    BY <1>7 DEF Elems
  <1>10. Signalled(list) \subseteq Elems(list)
    BY DEF Signalled, Elems
  <1>11. ASSUME list # <<>> PROVE list[1] \in Signalled(list)
    <2>1. 1 \in 1 .. Len(list)
      BY <1>1, <1>11, EmptySeq
    <2>2. 1 % 2 = 1
      OBVIOUS
    <2>3. QED
      BY <2>1, <2>2 DEF Signalled
  <1>12. QED
    BY <1>5, <1>8, <1>9, <1>10, <1>11 DEF new

(* splice() takes one entry off.                                             *)
LEMMA SplicedOne ==
    ASSUME NEW list \in Seq(Proc), Distinct(list), NEW k \in 1 .. Len(list)
    PROVE  /\ Spliced(list, k) \in Seq(Proc)
           /\ Distinct(Spliced(list, k))
           /\ Elems(Spliced(list, k)) = Elems(list) \ {list[k]}
  <1> DEFINE new == Spliced(list, k)
             from(j) == IF j < k THEN j ELSE j + 1
             n == Len(list) - 1
  <1>1. Len(list) \in Nat /\ \A i \in 1 .. Len(list) : list[i] \in Proc
    BY LenProperties, ElementOfSeq
  <1>2. n \in Nat /\ \A j \in 1 .. n : from(j) \in 1 .. Len(list) /\ from(j) # k
    BY <1>1
  <1>3. new = [j \in 1 .. n |-> list[from(j)]]
    BY DEF Spliced
  <1>4. \A j, l \in 1 .. n : from(j) = from(l) => j = l
    BY <1>1
  <1>5. \A i \in 1 .. Len(list) : i # k => \E j \in 1 .. n : from(j) = i
    <2>1. SUFFICES ASSUME NEW i \in 1 .. Len(list), i # k
                   PROVE  \E j \in 1 .. n : from(j) = i
      OBVIOUS
    <2>2. CASE i < k
      <3>1. i \in 1 .. n /\ from(i) = i
        BY <1>1, <2>2
      <3>2. QED
        BY <3>1
    <2>3. CASE i > k
      <3>1. i - 1 \in 1 .. n /\ from(i - 1) = i
        BY <1>1, <2>3
      <3>2. QED
        BY <3>1
    <2>4. QED
      BY <2>1, <2>2, <2>3, <1>1
  <1> HIDE DEF n, from, new
  <1>6. new \in [1 .. n -> Proc]
    BY <1>1, <1>2, <1>3
  <1>7. new \in Seq(Proc)
    BY <1>2, <1>6, SeqDef
  <1>8. Len(new) = n
    BY <1>2, <1>3, <1>6, <1>7, LenProperties
  <1>9. Distinct(new)
    BY <1>2, <1>3, <1>4, <1>8 DEF Distinct
  <1>10. Elems(new) = Elems(list) \ {list[k]}
    <2>1. \A j \in 1 .. n : new[j] \in Elems(list) /\ new[j] # list[k]
      BY <1>2, <1>3 DEF Elems, Distinct
    <2>2. \A i \in 1 .. Len(list) : list[i] # list[k] => \E j \in 1 .. n : new[j] = list[i]
      BY <1>3, <1>5
    <2>3. QED
      BY <2>1, <2>2, <1>8 DEF Elems
  <1>11. QED
    BY <1>7, <1>9, <1>10 DEF new

(* An exit event leaves no trace of its child, and takes nothing else away   *)
(* if the child was in the list.                                             *)
LEMMA Exited ==
    ASSUME NEW list \in Seq(Proc), Distinct(list), NEW p \in Proc
    PROVE  /\ ExitHandled(list, p) \in Seq(Proc)
           /\ Distinct(ExitHandled(list, p))
           /\ Elems(ExitHandled(list, p)) \subseteq Elems(list) \ {p}
           /\ p \in Elems(list) => Elems(ExitHandled(list, p)) = Elems(list) \ {p}
  <1>1. CASE list = <<>>
    <2>1. Elems(list) = {}
      BY <1>1 DEF Elems
    <2>2. QED
      BY <1>1, <2>1 DEF ExitHandled
  <1>2. CASE list # <<>> /\ At(list, p) = {}
    <2>1. Len(list) \in 1 .. Len(list)
      BY <1>2, LenProperties, EmptySeq
    <2>2. p \notin Elems(list)
      BY <1>2 DEF At, Elems
    <2>3. ExitHandled(list, p) = Spliced(list, Len(list))
      BY <1>2 DEF ExitHandled
    <2>4. QED
      BY <2>1, <2>2, <2>3, SplicedOne
  <1>3. CASE list # <<>> /\ At(list, p) # {}
    <2> DEFINE k == CHOOSE i \in At(list, p) : TRUE
    <2>1. k \in At(list, p)
      BY <1>3
    <2>2. ExitHandled(list, p) = Spliced(list, k)
      BY <1>3 DEF ExitHandled
    <2> HIDE DEF k
    <2>3. k \in 1 .. Len(list) /\ list[k] = p
      BY <2>1 DEF At
    <2>4. QED
      BY <2>2, <2>3, SplicedOne
  <1>4. QED
    BY <1>1, <1>2, <1>3

-------------------------------------------------------------------------------
(* The types.                                                                *)

LEMMA TypeInit == Init => TypeOK
  <1> SUFFICES ASSUME Init PROVE TypeOK
    OBVIOUS
  <1>1. (CHOOSE c \in Conn : TRUE) \in Conn
    BY WebAssumption
  <1>2. QED
    BY <1>1 DEF Init, TypeOK

(* ListedRunning in the words of the lemmas above.                           *)
LEMMA Listed ==
    ListedRunning <=> \A c \in Conn : /\ Distinct(chillens[c])
                                      /\ Elems(chillens[c]) \subseteq Children(c)
  BY DEF ListedRunning, Distinct, Elems

(* Every callback of the server keeps the types.                             *)
LEMMA TypeStep == TypeOK /\ ListedRunning /\ [Next]_vars => TypeOK'
  <1> SUFFICES ASSUME TypeOK, ListedRunning, [Next]_vars PROVE TypeOK'
    OBVIOUS
  <1> USE DEF TypeOK
  <1>1. ASSUME NEW c \in Conn, Connect(c) PROVE TypeOK'
    BY <1>1, AppendProperties DEF Connect, procVars, fileVars
  <1>2. ASSUME NEW c \in Conn, NEW button \in Message, Press(c, button) PROVE TypeOK'
    BY <1>2, AppendProperties DEF Press, procVars, fileVars
  <1>3. ASSUME NEW c \in Conn, Close(c) PROVE TypeOK'
    BY <1>3, EmptySeq DEF Close, procVars, fileVars
  <1>4. ASSUME NEW c \in Conn, HandleKill(c) PROVE TypeOK'
    <2>1. inbox' \in [Conn -> Seq(Message)]
      BY <1>4, HeadTailProperties DEF HandleKill, Handle
    <2>2. Distinct(chillens[c]) /\ Elems(chillens[c]) \subseteq Proc
      BY Listed DEF Children
    <2>3. PassedOver(chillens[c]) \in Seq(Proc) /\ Signalled(chillens[c]) \subseteq Proc
      BY <2>2, Cancelled
    <2>4. QED
      BY <1>4, <2>1, <2>3 DEF HandleKill, Handle, fileVars
  <1>5. ASSUME NEW c \in Conn, NEW p \in Proc, HandleStart(c, p) PROVE TypeOK'
    <2>1. inbox' \in [Conn -> Seq(Message)]
      BY <1>5, HeadTailProperties DEF HandleStart, Handle
    <2>2. QED
      BY <1>5, <2>1, AppendProperties DEF HandleStart, Handle, fileVars
  <1>6. ASSUME NEW c \in Conn, SpawnFails(c) PROVE TypeOK'
    BY <1>6, EmptySeq DEF SpawnFails, Stops
  <1>7. ASSUME NEW c \in Conn, Watched(c) PROVE TypeOK'
    BY <1>7 DEF Watched, procVars
  <1>8. ASSUME NEW p \in Proc, ChildExit(p) PROVE TypeOK'
    <2>1. Distinct(chillens[owner[p]])
      BY DEF ListedRunning, Distinct
    <2>2. ExitHandled(chillens[owner[p]], p) \in Seq(Proc)
      BY <2>1, Exited
    <2>3. QED
      BY <1>8, <2>2 DEF ChildExit, fileVars
  <1>9. CASE FilesChange
    BY <1>9 DEF FilesChange, procVars
  <1>10. CASE Restart
    BY <1>10 DEF Restart, procVars, fileVars
  <1>11. CASE UNCHANGED vars
    BY <1>11 DEF vars, procVars, fileVars
  <1>12. QED
    BY <1>1, <1>2, <1>3, <1>4, <1>5, <1>6, <1>7, <1>8, <1>9, <1>10, <1>11 DEF Next

-------------------------------------------------------------------------------
(* Every callback leaves the lists with children that run and are their own. *)
LEMMA ListedStep == TypeOK /\ ListedRunning /\ [Next]_vars => ListedRunning'
  <1> SUFFICES ASSUME TypeOK, ListedRunning, [Next]_vars PROVE ListedRunning'
    OBVIOUS
  <1> DEFINE Good(d) == Distinct(chillens[d]) /\ Elems(chillens[d]) \subseteq Children(d)
  <1>1. \A d \in Conn : Good(d)
    BY Listed
  <1>2. SUFFICES \A d \in Conn : Good(d)'
    BY Listed DEF ListedRunning, Distinct, Elems
  <1>3. CASE UNCHANGED procVars
    BY <1>1, <1>3 DEF procVars, Children
  <1>4. ASSUME NEW c \in Conn, HandleKill(c) PROVE \A d \in Conn : Good(d)'
    <2>1. chillens' = [chillens EXCEPT ![c] = PassedOver(chillens[c])]
          /\ UNCHANGED <<state, owner>>
      BY <1>4 DEF HandleKill
    <2>2. chillens[c] \in Seq(Proc)
      BY DEF TypeOK
    <2>3. \A d \in Conn : Children(d)' = Children(d)
      BY <2>1 DEF Children
    <2>4. Distinct(PassedOver(chillens[c])) /\ Elems(PassedOver(chillens[c])) \subseteq Children(c)
      BY <1>1, <2>2, Cancelled
    <2>5. chillens'[c] = PassedOver(chillens[c])
          /\ \A d \in Conn \ {c} : chillens'[d] = chillens[d]
      BY <2>1 DEF TypeOK
    <2>6. QED
      BY <1>1, <2>3, <2>4, <2>5
  <1>5. ASSUME NEW c \in Conn, NEW p \in Proc, HandleStart(c, p)
        PROVE  \A d \in Conn : Good(d)'
    <2>1. /\ state[p] = "new" /\ state' = [state EXCEPT ![p] = "running"]
          /\ owner' = [owner EXCEPT ![p] = c]
          /\ chillens' = [chillens EXCEPT ![c] = Append(chillens[c], p)]
      BY <1>5 DEF HandleStart
    <2>2. \A d \in Conn : p \notin Children(d)
      BY <2>1 DEF Children
    <2>3. \A d \in Conn : Children(d) \subseteq Children(d)' /\ p \in Children(c)'
      BY <2>1 DEF Children, TypeOK
    <2>4. Good(c)'
      <3>1. chillens[c] \in Seq(Proc) /\ p \notin Elems(chillens[c])
        BY <1>1, <2>2 DEF TypeOK
      <3>2. Distinct(Append(chillens[c], p))
            /\ Elems(Append(chillens[c], p)) = Elems(chillens[c]) \cup {p}
        BY <1>1, <3>1, Pushed
      <3>3. chillens'[c] = Append(chillens[c], p)
        BY <2>1 DEF TypeOK
      <3>4. QED
        BY <1>1, <2>3, <3>2, <3>3
    <2>5. ASSUME NEW d \in Conn, d # c PROVE Good(d)'
      <3>1. chillens'[d] = chillens[d]
        BY <2>1, <2>5 DEF TypeOK
      <3>2. QED
        BY <1>1, <2>3, <3>1
    <2>6. QED
      BY <2>4, <2>5
  <1>6. ASSUME NEW c \in Conn, SpawnFails(c) PROVE \A d \in Conn : Good(d)'
    BY <1>6 DEF SpawnFails, Stops, Distinct, Elems
  <1>7. ASSUME NEW p \in Proc, ChildExit(p) PROVE \A d \in Conn : Good(d)'
    <2>1. /\ state' = [state EXCEPT ![p] = "gone"] /\ owner' = owner
          /\ owner[p] \in Conn
          /\ chillens' = [chillens EXCEPT ![owner[p]] = ExitHandled(chillens[owner[p]], p)]
      BY <1>7 DEF ChildExit, TypeOK
    <2>2. \A d \in Conn : Children(d) \ {p} \subseteq Children(d)'
      BY <2>1 DEF Children, TypeOK
    <2>3. ASSUME NEW d \in Conn, d = owner[p] PROVE Good(d)'
      <3>1. chillens[d] \in Seq(Proc)
        BY <2>1 DEF TypeOK
      <3>2. /\ Distinct(ExitHandled(chillens[d], p))
            /\ Elems(ExitHandled(chillens[d], p)) \subseteq Elems(chillens[d]) \ {p}
        BY <1>1, <3>1, Exited
      <3>3. chillens'[d] = ExitHandled(chillens[d], p)
        BY <2>1, <2>3 DEF TypeOK
      <3>4. QED
        BY <1>1, <2>2, <3>2, <3>3
    <2>4. ASSUME NEW d \in Conn, d # owner[p] PROVE Good(d)'
      <3>1. chillens'[d] = chillens[d]
        BY <2>1, <2>4 DEF TypeOK
      <3>2. p \notin Children(d)
        BY <2>4 DEF Children
      <3>3. QED
        BY <1>1, <2>2, <3>1, <3>2
    <2>5. QED
      BY <2>3, <2>4
  <1>8. QED
    BY <1>3, <1>4, <1>5, <1>6, <1>7
       DEF Next, Connect, Press, Close, Watched, FilesChange, Restart, vars

(* All variables keep their types (the lists need ListedRunning for it).     *)
THEOREM TypeCorrect == Spec => []TypeOK
  <1>1. Init => TypeOK /\ ListedRunning
    BY TypeInit DEF Init, ListedRunning
  <1>2. QED
    BY <1>1, TypeStep, ListedStep, PTL DEF Spec

(* Whatever is started, cancelled and ends in whatever order, the server     *)
(* signals only processes that run and only its own browser's (killWorkers). *)
THEOREM CancelHitsOwnChildren == Spec => []ListedRunning
  <1>1. Init => TypeOK /\ ListedRunning
    BY TypeInit DEF Init, ListedRunning
  <1>2. QED
    BY <1>1, TypeStep, ListedStep, PTL DEF Spec

-------------------------------------------------------------------------------
(* What holds of a connection that is not open, and of what was signalled:   *)
(* nothing is left from before it was opened, nobody reads what it sends, no *)
(* connection outlives the server, and only what was started is signalled.   *)
Unopened ==
    \A c \in Conn : conn[c] = "new" =>
        /\ chillens[c] = <<>> /\ colour[c] = "unset"
        /\ \A p \in Proc : state[p] # "new" => owner[p] # c
Awaited == \A c \in Conn : inbox[c] # <<>> => conn[c] = "open"
Served  == up \/ Open = {}
Started == \A p \in signalled : state[p] # "new"

Inv == TypeOK /\ ListedRunning /\ Unopened /\ Awaited /\ Served /\ Started

LEMMA InvInit == Init => Inv
  BY TypeInit DEF Init, Inv, ListedRunning, Unopened, Awaited, Served, Started, Open

LEMMA InvStep == Inv /\ [Next]_vars => Inv'
  <1> SUFFICES ASSUME Inv, [Next]_vars PROVE Inv'
    OBVIOUS
  <1> USE DEF Inv
  <1>1. TypeOK' /\ ListedRunning'
    BY TypeStep, ListedStep
  <1>2. Awaited'
    <2>1. ASSUME NEW c \in Conn, Close(c) \/ SpawnFails(c) PROVE Awaited'
      <3>1. CASE Close(c)
        BY <3>1 DEF Awaited, TypeOK, Close
      <3>2. CASE SpawnFails(c)
        BY <3>2 DEF Awaited, TypeOK, SpawnFails, Stops
      <3>3. QED
        BY <2>1, <3>1, <3>2
    <2>2. CASE \E c \in Conn : Connect(c) \/ \E button \in Message : Press(c, button)
      BY <2>2 DEF Awaited, Open, TypeOK, Connect, Press
    <2>3. CASE conn' = conn /\ \E c \in Conn, button \in Message : Handle(c, button)
      BY <2>3 DEF Awaited, TypeOK, Handle
    <2>4. CASE UNCHANGED <<conn, inbox>>
      BY <2>4 DEF Awaited
    <2>5. QED
      BY <2>1, <2>2, <2>3, <2>4
         DEF Next, HandleKill, HandleStart, Message, Watched, ChildExit, FilesChange,
             Restart, vars
  <1>3. Served'
    <2>1. ASSUME NEW c \in Conn, Close(c) \/ SpawnFails(c) PROVE Served'
      <3>1. up \/ Open' = {}
        <4>1. CASE Close(c)
          BY <4>1 DEF Served, Open, TypeOK, Close
        <4>2. CASE SpawnFails(c)
          BY <4>2 DEF Open, TypeOK, SpawnFails, Stops
        <4>3. QED
          BY <2>1, <4>1, <4>2
      <3>2. \A d \in Conn : conn'[d] = "open" => conn[d] = "open" /\ Close(c)
        <4>1. CASE Close(c)
          BY <4>1 DEF TypeOK, Close
        <4>2. CASE SpawnFails(c)
          BY <4>2 DEF TypeOK, SpawnFails, Stops
        <4>3. QED
          BY <2>1, <4>1, <4>2
      <3>3. QED
        BY <2>1, <3>1, <3>2 DEF Served, Open, Close
    <2>2. CASE up' = TRUE
      BY <2>2 DEF Served
    <2>3. CASE UNCHANGED <<up, conn>>
      BY <2>3 DEF Served, Open
    <2>4. QED
      BY <2>1, <2>2, <2>3
         DEF Next, Connect, Press, HandleKill, HandleStart, Handle, Watched, ChildExit,
             FilesChange, Restart, vars
  <1>4. Unopened'
    <2>1. SUFFICES ASSUME NEW e \in Conn, conn'[e] = "new"
                   PROVE  /\ chillens'[e] = <<>> /\ colour'[e] = "unset"
                          /\ \A p \in Proc : state'[p] # "new" => owner'[p] # e
      BY DEF Unopened
    <2>2. conn[e] = "new"
      BY <2>1 DEF TypeOK, Next, Connect, Press, Close, HandleKill, HandleStart, SpawnFails,
           Stops, Watched, ChildExit, FilesChange, Restart, vars
    <2>3. /\ chillens[e] = <<>> /\ colour[e] = "unset" /\ e \notin Open
          /\ \A p \in Proc : state[p] # "new" => owner[p] # e
      BY <2>2 DEF Unopened, Open
    <2>4. ASSUME NEW c \in Conn, inbox[c] # <<>> PROVE c # e
      BY <2>2, <2>4 DEF Awaited
    <2>5. ASSUME NEW c \in Conn, NEW p \in Proc, HandleStart(c, p)
          PROVE  /\ chillens'[e] = <<>> /\ colour'[e] = "unset"
                 /\ \A q \in Proc : state'[q] # "new" => owner'[q] # e
      BY <2>3, <2>4, <2>5 DEF HandleStart, Handle, TypeOK, fileVars
    <2>6. ASSUME NEW c \in Conn, HandleKill(c)
          PROVE  chillens'[e] = <<>> /\ UNCHANGED <<colour, state, owner>>
      BY <2>3, <2>4, <2>6 DEF HandleKill, Handle, TypeOK, fileVars
    <2>7. ASSUME NEW p \in Proc, ChildExit(p)
          PROVE  /\ chillens'[e] = <<>> /\ UNCHANGED <<colour, owner>>
                 /\ \A q \in Proc : state'[q] # "new" => state[q] # "new"
      BY <2>3, <2>7 DEF ChildExit, TypeOK, fileVars
    <2>8. ASSUME NEW c \in Conn, SpawnFails(c)
          PROVE  chillens'[e] = <<>> /\ UNCHANGED <<colour, state, owner>>
      BY <2>8 DEF SpawnFails, Stops
    <2>9. ASSUME NEW c \in Conn, Watched(c)
          PROVE  colour'[e] = "unset" /\ UNCHANGED procVars
      BY <2>3, <2>9 DEF Watched, TypeOK
    <2>10. QED
      BY <2>3, <2>5, <2>6, <2>7, <2>8, <2>9
         DEF Next, Connect, Press, Close, FilesChange, Restart, vars, procVars, fileVars
  <1>5. Started'
    <2>1. ASSUME NEW c \in Conn, HandleKill(c) PROVE Started'
      <3>1. \A q \in Signalled(chillens[c]) : state[q] # "new"
        BY Listed, Cancelled DEF TypeOK, Children
      <3>2. QED
        BY <2>1, <3>1 DEF Started, HandleKill
    <2>2. CASE UNCHANGED signalled /\ ~ \E c \in Conn : HandleKill(c)
      BY <2>2 DEF Started, TypeOK, Next, Connect, Press, Close, HandleStart, SpawnFails,
           Stops, Watched, ChildExit, FilesChange, Restart, procVars, vars
    <2>3. QED
      BY <2>1, <2>2 DEF Next, Connect, Press, Close, HandleStart, SpawnFails,
           Stops, Watched, ChildExit, FilesChange, Restart, vars
  <1>6. QED
    BY <1>1, <1>2, <1>3, <1>4, <1>5

LEMMA Invariance == Spec => []Inv
  BY InvInit, InvStep, PTL DEF Spec

-------------------------------------------------------------------------------
(* The colour of the Outbox button is true unless a callback is pending.     *)
LEMMA ColourStep == Inv /\ ColourCurrent /\ [Next]_vars => ColourCurrent'
  <1> SUFFICES ASSUME Inv, ColourCurrent, [Next]_vars PROVE ColourCurrent'
    OBVIOUS
  <1> USE DEF Inv, ColourCurrent
  <1>1. ASSUME NEW c \in Conn, Connect(c) PROVE ColourCurrent'
    <2>1. colour[c] = "unset" /\ UNCHANGED fileVars
      BY <1>1 DEF Connect, Unopened
    <2>2. Open' \subseteq Open \cup {c}
      BY <1>1 DEF Connect, Open, TypeOK
    <2>3. QED
      BY <2>1, <2>2 DEF fileVars
  <1>2. ASSUME NEW c \in Conn, Close(c) \/ SpawnFails(c) PROVE ColourCurrent'
    <2>1. CASE Close(c)
      BY <2>1 DEF Close, Open, TypeOK, fileVars
    <2>2. CASE SpawnFails(c)
      BY <2>2 DEF SpawnFails, Stops, Open, TypeOK, fileVars
    <2>3. QED
      BY <1>2, <2>1, <2>2
  <1>3. CASE \E c \in Conn : Watched(c)
    BY <1>3 DEF Watched, Open, TypeOK
  <1>4. CASE FilesChange
    BY <1>4 DEF FilesChange, Open, Served, TypeOK
  <1>5. CASE UNCHANGED <<conn, fileVars>>
    BY <1>5 DEF Open, fileVars
  <1>6. QED
    BY <1>1, <1>2, <1>3, <1>4, <1>5
       DEF Next, Press, HandleKill, Handle, HandleStart, ChildExit, Restart, vars

(* Whatever happens to the outbox, a browser for which no fs.watch callback  *)
(* is pending shows whether there is mail in it, or was never told.          *)
THEOREM ColourIsCurrent == Spec => []ColourCurrent
  <1>1. Init => ColourCurrent
    BY DEF Init, ColourCurrent, Open
  <1>2. QED
    BY <1>1, Invariance, ColourStep, PTL DEF Spec

-------------------------------------------------------------------------------
(* Until a Cancel, the lists hold all children.                              *)
LEMMA TrackedStep == Inv /\ TrackedUntilCancelled /\ [Next]_vars => TrackedUntilCancelled'
  <1> SUFFICES ASSUME Inv, TrackedUntilCancelled, [Next]_vars,
                      NEW d \in Open', \A p \in signalled' : owner'[p] # d
               PROVE  Children(d)' = Elems(chillens'[d])
    BY DEF TrackedUntilCancelled, Elems
  <1> USE DEF Inv
  <1>1. d \in Conn /\ conn'[d] = "open"
    BY DEF Open
  <1> DEFINE Before == Children(d) = Elems(chillens[d])
  <1>2. ASSUME conn[d] = "open", \A p \in signalled : owner[p] # d PROVE Before
    BY <1>1, <1>2 DEF TrackedUntilCancelled, Open, Elems
  <1>3. ASSUME NEW c \in Conn, Connect(c) PROVE Children(d)' = Elems(chillens'[d])
    <2>1. UNCHANGED <<procVars, signalled>> /\ (conn[d] = "open" \/ conn[d] = "new")
      BY <1>1, <1>3 DEF Connect, TypeOK
    <2>2. Before
      <3>1. CASE conn[d] = "open"
        BY <1>2, <2>1, <3>1 DEF procVars
      <3>2. CASE conn[d] = "new"
        <4>1. chillens[d] = <<>> /\ Children(d) = {}
          BY <1>1, <3>2 DEF Unopened, Children
        <4>2. QED
          BY <4>1 DEF Elems
      <3>3. QED
        BY <2>1, <3>1, <3>2
    <2>3. QED
      BY <2>1, <2>2 DEF procVars, Children
  <1>4. CASE /\ UNCHANGED <<procVars, signalled>>
             /\ \A c \in Conn : conn'[c] = "open" => conn[c] = "open"
    BY <1>1, <1>2, <1>4 DEF procVars, Children
  <1>5. ASSUME NEW c \in Conn, HandleKill(c) PROVE Children(d)' = Elems(chillens'[d])
    <2>1. /\ conn' = conn /\ owner' = owner /\ state' = state
          /\ chillens' = [chillens EXCEPT ![c] = PassedOver(chillens[c])]
          /\ signalled' = signalled \cup Signalled(chillens[c])
      BY <1>5 DEF HandleKill
    <2>2. Before
      BY <1>1, <1>2, <2>1
    <2>3. CASE d # c
      BY <1>1, <2>1, <2>2, <2>3 DEF Children, TypeOK
    <2>4. CASE d = c
      <3>1. chillens[c] \in Seq(Proc) /\ Distinct(chillens[c])
            /\ Elems(chillens[c]) \subseteq Children(c)
        BY Listed DEF TypeOK
      <3>2. chillens[c] = <<>>
        BY <2>1, <2>4, <3>1, Cancelled DEF Children
      <3>3. Elems(PassedOver(chillens[c])) = {}
        <4>1. Elems(<<>>) = {}
          BY DEF Elems
        <4>2. QED
          BY <3>1, <3>2, <4>1, Cancelled
      <3>4. Elems(chillens[c]) = {}
        BY <3>2 DEF Elems
      <3>5. chillens'[d] = PassedOver(chillens[c]) /\ Children(d)' = Children(d)
        BY <1>1, <2>1, <2>4 DEF Children, TypeOK
      <3>6. QED
        BY <2>2, <2>4, <3>3, <3>4, <3>5
    <2>5. QED
      BY <2>3, <2>4
  <1>6. ASSUME NEW c \in Conn, NEW p \in Proc, HandleStart(c, p)
        PROVE  Children(d)' = Elems(chillens'[d])
    <2>1. /\ conn' = conn /\ signalled' = signalled
          /\ state[p] = "new" /\ state' = [state EXCEPT ![p] = "running"]
          /\ owner' = [owner EXCEPT ![p] = c]
          /\ chillens' = [chillens EXCEPT ![c] = Append(chillens[c], p)]
      BY <1>6 DEF HandleStart
    <2>2. Before
      BY <1>1, <1>2, <2>1 DEF Started, TypeOK
    <2>3. CASE d # c
      BY <1>1, <2>1, <2>2, <2>3 DEF Children, TypeOK
    <2>4. CASE d = c
      <3>1. chillens[c] \in Seq(Proc) /\ Distinct(chillens[c]) /\ p \notin Elems(chillens[c])
        BY <2>1, Listed DEF TypeOK, Children
      <3>2. Elems(Append(chillens[c], p)) = Elems(chillens[c]) \cup {p}
        BY <3>1, Pushed
      <3>3. Children(d)' = Children(d) \cup {p}
        BY <1>1, <2>1, <2>4 DEF Children, TypeOK
      <3>4. QED
        BY <2>1, <2>2, <2>4, <3>2, <3>3 DEF TypeOK
    <2>5. QED
      BY <2>3, <2>4
  <1>7. ASSUME NEW c \in Conn, SpawnFails(c) PROVE Children(d)' = Elems(chillens'[d])
    BY <1>1, <1>7 DEF SpawnFails, Stops, TypeOK
  <1>8. ASSUME NEW p \in Proc, ChildExit(p) PROVE Children(d)' = Elems(chillens'[d])
    <2>1. /\ conn' = conn /\ signalled' = signalled /\ owner' = owner
          /\ state[p] = "running" /\ state' = [state EXCEPT ![p] = "gone"]
          /\ chillens' = [chillens EXCEPT ![owner[p]] = ExitHandled(chillens[owner[p]], p)]
      BY <1>8 DEF ChildExit
    <2>2. Before
      BY <1>1, <1>2, <2>1
    <2>3. Children(d)' = Children(d) \ {p}
      BY <2>1 DEF Children, TypeOK
    <2>4. CASE d # owner[p]
      BY <1>1, <2>1, <2>2, <2>3, <2>4 DEF Children, TypeOK
    <2>5. CASE d = owner[p]
      <3>1. chillens[d] \in Seq(Proc) /\ Distinct(chillens[d]) /\ p \in Elems(chillens[d])
        BY <1>1, <2>1, <2>2, <2>5, Listed DEF TypeOK, Children
      <3>2. Elems(ExitHandled(chillens[d], p)) = Elems(chillens[d]) \ {p}
        BY <3>1, Exited
      <3>3. QED
        BY <1>1, <2>1, <2>2, <2>3, <2>5, <3>2 DEF TypeOK
    <2>6. QED
      BY <2>4, <2>5
  <1>9. QED
    BY <1>3, <1>4, <1>5, <1>6, <1>7, <1>8
       DEF Next, Press, Close, Watched, FilesChange, Restart, vars, procVars, TypeOK, Open

(* As long as no child of a browser was signalled, all its running children  *)
(* are in its list, so that Cancel reaches one if there is one.              *)
THEOREM CancelReaches == Spec => []TrackedUntilCancelled
  <1>1. Init => TrackedUntilCancelled
    BY DEF Init, TrackedUntilCancelled, Open
  <1>2. QED
    BY <1>1, Invariance, TrackedStep, PTL DEF Spec
===============================================================================
