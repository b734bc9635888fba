------------------------------ MODULE OutboxProofs ------------------------------
(***************************************************************************)
(* What becomes of a message that mail.wl2k has filed, for any number of     *)
(* composers and sessions, any identifiers and messages of any size.  The    *)
(* argument is about one composer that clashes with none: nobody else has    *)
(* ever drawn its identifier, so that its file is its own.                   *)
(***************************************************************************)
EXTENDS Outbox, TLAPS

(* The identifier of c does not change any more.                             *)
Fixed(c) == cpc[c] \notin {"new", "draw"}
Past(c)  == Fixed(c) /\ cpc[c] # "record"

(* c will come to, or has come to, open its file.                            *)
Chosen(c) == cpc[c] \in {"record", "open", "write", "ok"}

(* A clash that is there to stay.                                            *)
Clashed(c) ==
    \E d \in Comp \ {c} :
        Fixed(d) /\ mid[d] = mid[c] /\ d \notin before[c] /\ c \notin before[d]

(* Those that had recorded their identifiers when c was started have others. *)
Earlier ==
    /\ \A c \in Comp : cpc[c] = "new" => mid[c] = NoMid
    /\ \A c \in Comp : Chosen(c) => mid[c] \in Mid
    /\ \A c \in Comp : \A d \in before[c] :
          /\ cpc[c] # "new" /\ d # c /\ Past(d) /\ mid[d] \in db
          /\ Chosen(c) => mid[d] # mid[c]

(* A file that is being written is there.                                    *)
Linked == \A c \in Comp : linked[c] => /\ Fixed(c) /\ mid[c] \in Mid
                                       /\ files[mid[c]] # NoFile

(* What is in the outbox, in a list or with the other station has been given *)
(* its identifier by somebody.                                               *)
Named(m) == \E c \in Comp : Fixed(c) /\ mid[c] = m
AllNamed ==
    /\ \A m \in Mid : files[m] # NoFile => Named(m)
    /\ \A s \in Sess : \A p \in list[s] : Named(p.mid)
    /\ \A m \in rmids : Named(m)

(* A session deletes only what the other station has.                        *)
SentIsThere ==
    \A s \in Sess : /\ spc[s] = "idle" => list[s] = {}
                    /\ spc[s] = "sent" => \A p \in list[s] : p.mid \in rmids

Listed(m) == \E s \in Sess : \E p \in list[s] : p.mid = m

(* The file of a composer that clashes with none, and that no session has    *)
(* read too early: before it is there, while it is written, and afterwards.  *)
Unused(c)  == files[mid[c]] = NoFile /\ ~Listed(mid[c]) /\ mid[c] \notin rmids
Writing(c) == /\ ~Listed(mid[c]) /\ mid[c] \notin rmids
              /\ linked[c] /\ files[mid[c]] = [i \in 1 .. drawn[c] |-> c]
Filed(c)   == /\ files[mid[c]] = Whole(c) \/ (files[mid[c]] = NoFile /\ Whole(c) \in received)
              /\ mid[c] \in rmids => Whole(c) \in received
              /\ \A s \in Sess : \A p \in list[s] : p.mid = mid[c] => p.text = Whole(c)
Own(c) ==
    /\ cpc[c] \in {"record", "open"} => Unused(c)
    /\ cpc[c] = "write" /\ c \notin torn => Writing(c)
    /\ cpc[c] = "ok" /\ c \notin torn \cup short => Filed(c)
AllOwn == \A c \in Comp : ~Clashed(c) => Own(c)

Inv == TypeOK /\ Earlier /\ Linked /\ AllNamed /\ SentIsThere /\ AllOwn

-------------------------------------------------------------------------------
(* What does not change.                                                     *)

(* The identifier of a composer that has left the loop stays (generate_mid). *)
LEMMA FixedStays ==
    ASSUME TypeOK, [Next]_vars, NEW c \in Comp, Fixed(c)
    PROVE  Fixed(c)' /\ mid'[c] = mid[c] /\ before'[c] = before[c]
  <1>1. ASSUME NEW d \in Comp,
               \/ Start(d) \/ Draw(d) \/ Record(d) \/ Open(d) \/ Write(d) \/ Close(d)
               \/ CloseFails(d) \/ Fails(d)
        PROVE  Fixed(c)' /\ mid'[c] = mid[c] /\ before'[c] = before[c]
    BY <1>1 DEF TypeOK, Fixed, At, Start, Draw, Record, Open, Write, Close, Writes,
                CloseFails, Fails
  <1>2. CASE UNCHANGED <<cpc, mid, before>>
    BY <1>2 DEF Fixed
  <1>3. QED
    BY <1>1, <1>2 DEF Next, Tick, ReadDir, Send, DoDelete, Drop, ReadFile, FileGone,
                      composers, vars

(* A clash does not go away.                                                 *)
LEMMA ClashStays ==
    ASSUME TypeOK, [Next]_vars, NEW c \in Comp, Fixed(c), Clashed(c)
    PROVE  Clashed(c)'
  <1>1. PICK d \in Comp \ {c} :
            Fixed(d) /\ mid[d] = mid[c] /\ d \notin before[c] /\ c \notin before[d]
    BY DEF Clashed
  <1>2. Fixed(d)' /\ mid'[d] = mid'[c] /\ d \notin before'[c] /\ c \notin before'[d]
    BY <1>1, FixedStays
  <1>3. QED
    BY <1>2 DEF Clashed

(* Two that came to the same identifier clash.                               *)
LEMMA Apart ==
    ASSUME Earlier, NEW c \in Comp, NEW d \in Comp \ {c}, Chosen(c), Chosen(d),
           mid[d] = mid[c]
    PROVE  Clashed(c)
  <1>1. d \notin before[c] /\ c \notin before[d]
    BY DEF Earlier
  <1>2. QED
    BY <1>1 DEF Clashed, Fixed, Chosen

(* What c writes is a file, and not the lack of one.                         *)
LEMMA Puts ==
    ASSUME NEW text \in Seq(Comp \cup {Hole}), NEW k \in Nat \ {0}, NEW c \in Comp
    PROVE  /\ Put(text, k, c) \in Seq(Comp \cup {Hole})
           /\ Put(text, k, c) # NoFile
  <1> DEFINE n == IF Len(text) > k THEN Len(text) ELSE k
  <1>1. n \in Nat /\ k \in 1 .. n
    OBVIOUS
  <1>2. ASSUME NEW i \in 1 .. n
        PROVE  (IF i = k THEN c ELSE IF i =< Len(text) THEN text[i] ELSE Hole)
                 \in Comp \cup {Hole}
    OBVIOUS
  <1>3. Put(text, k, c) \in [1 .. n -> Comp \cup {Hole}] /\ Put(text, k, c)[k] = c
    BY <1>1, <1>2 DEF Put
  <1>4. Put(text, k, c) \in Seq(Comp \cup {Hole})
    BY <1>1, <1>3
  <1>5. Put(text, k, c) # NoFile
    <2>1. NoFile[1] = "none" /\ DOMAIN NoFile = {1}
      BY DEF NoFile
    <2>2. ASSUME Put(text, k, c) = NoFile PROVE c = "none"
      <3>1. k = 1
        BY <1>1, <1>3, <2>1, <2>2
      <3>2. QED
        BY <1>3, <2>1, <2>2, <3>1
    <2>3. QED
      BY <2>2, OutboxAssumption
  <1>6. QED
    BY <1>4, <1>5

-------------------------------------------------------------------------------
(* Every step keeps the types.                                               *)
LEMMA TypeStep == TypeOK /\ Earlier /\ Linked /\ [Next]_vars => TypeOK' /\ Linked'
  <1> SUFFICES ASSUME TypeOK, Earlier, Linked, [Next]_vars PROVE TypeOK' /\ Linked'
    OBVIOUS
  <1> USE OutboxAssumption
  <1> USE DEF Fixed
  <1>1. CASE Tick
    BY <1>1 DEF Tick, TypeOK, Linked, sessions
  <1>2. ASSUME NEW c \in Comp, Start(c) PROVE TypeOK' /\ Linked'
    BY <1>2 DEF Start, At, Recorded, TypeOK, Linked, sessions
  <1>3. ASSUME NEW c \in Comp, Draw(c) PROVE TypeOK' /\ Linked'
    <2>1. Draws[seed[c]][drawn[c] + 1] \in Mid
      <3>1. Draws[seed[c]] \in Seq(Mid)
        BY DEF TypeOK
      <3>2. drawn[c] \in Nat /\ drawn[c] < Len(Draws[seed[c]])
        BY <1>3 DEF TypeOK, Draw
      <3>3. QED
        BY <3>1, <3>2
    <2>2. /\ drawn' = [drawn EXCEPT ![c] = drawn[c] + 1]
          /\ mid' = [mid EXCEPT ![c] = Draws[seed[c]][drawn[c] + 1]]
          /\ cpc[c] = "draw"
          /\ \E l \in {"draw", "record"} : cpc' = [cpc EXCEPT ![c] = l]
          /\ UNCHANGED <<now, bRecordMid, seed, linked, db, before, short, sessions, files, torn>>
      BY <1>3 DEF Draw
    <2>3. UNCHANGED <<spc, names, list, rmids, received, drops>>
      BY <2>2 DEF sessions
    <2>4. cpc' \in [Comp -> {"new", "draw", "record", "open", "write", "ok", "failed"}]
      BY <2>2 DEF TypeOK
    <2>5. drawn' \in [Comp -> Nat] /\ mid' \in [Comp -> Mid \cup {NoMid}]
      BY <2>1, <2>2 DEF TypeOK
    <2>6. TypeOK'
      BY <2>2, <2>3, <2>4, <2>5 DEF TypeOK
    <2>7. Linked'
      BY <2>1, <2>2 DEF TypeOK, Linked
    <2>8. QED
      BY <2>6, <2>7
  <1>4. ASSUME NEW c \in Comp, Record(c) PROVE TypeOK' /\ Linked'
    <2>1. mid[c] \in Mid
      BY <1>4 DEF Record, At, Earlier, Chosen
    <2>2. QED
      BY <1>4, <2>1 DEF Record, At, TypeOK, Linked, sessions
  <1>5. ASSUME NEW c \in Comp, Open(c) PROVE TypeOK' /\ Linked'
    <2>1. mid[c] \in Mid /\ <<>> # NoFile
      BY <1>5 DEF Open, At, Earlier, Chosen, NoFile
    <2>2. <<>> \in Seq(Comp \cup {Hole})
      OBVIOUS
    <2>3. TypeOK'
      BY <1>5, <2>1, <2>2 DEF Open, At, TypeOK, sessions
    <2>4. Linked'
      BY <1>5, <2>1 DEF Open, At, TypeOK, Linked
    <2>5. QED
      BY <2>3, <2>4
  <1>6. ASSUME NEW c \in Comp, Write(c) \/ Close(c) PROVE TypeOK' /\ Linked'
    <2> DEFINE text == Put(files[mid[c]], drawn[c] + 1, c)
    <2>1. /\ drawn' = [drawn EXCEPT ![c] = drawn[c] + 1]
          /\ cpc[c] = "write" /\ \E l \in {"write", "ok"} : cpc' = [cpc EXCEPT ![c] = l]
          /\ UNCHANGED <<now, bRecordMid, seed, mid, linked, db, before, short, sessions, torn>>
          /\ files' = IF linked[c] THEN [files EXCEPT ![mid[c]] = text] ELSE files
      BY <1>6 DEF Write, Close, At, Writes, TypeOK
    <2>2. ASSUME linked[c] PROVE Linked' /\ files' \in [Mid -> {NoFile} \cup Seq(Comp \cup {Hole})]
      <3>1. mid[c] \in Mid /\ files[mid[c]] \in Seq(Comp \cup {Hole})
        BY <2>2 DEF Linked, TypeOK
      <3>2. text \in Seq(Comp \cup {Hole}) /\ text # NoFile
        <4>1. drawn[c] + 1 \in Nat \ {0}
          BY DEF TypeOK
        <4>2. QED
          BY <3>1, <4>1, Puts
      <3> HIDE DEF text
      <3>3. files' \in [Mid -> {NoFile} \cup Seq(Comp \cup {Hole})]
        BY <2>1, <2>2, <3>1, <3>2 DEF TypeOK
      <3>4. Linked'
        BY <2>1, <2>2, <3>1, <3>2 DEF TypeOK, Linked
      <3>5. QED
        BY <3>3, <3>4
    <2>3. ASSUME ~linked[c] PROVE Linked' /\ files' \in [Mid -> {NoFile} \cup Seq(Comp \cup {Hole})]
      <3>1. UNCHANGED files
        BY <2>1, <2>3
      <3>2. Linked'
        BY <2>1, <2>3, <3>1 DEF TypeOK, Linked
      <3>3. QED
        BY <3>1, <3>2 DEF TypeOK
    <2>4. Linked' /\ files' \in [Mid -> {NoFile} \cup Seq(Comp \cup {Hole})]
      BY <2>2, <2>3
    <2>5. cpc' \in [Comp -> {"new", "draw", "record", "open", "write", "ok", "failed"}]
      BY <2>1 DEF TypeOK
    <2>6. drawn' \in [Comp -> Nat]
      BY <2>1 DEF TypeOK
    <2>7. UNCHANGED <<spc, names, list, rmids, received, drops>>
      BY <2>1 DEF sessions
    <2>8. TypeOK'
      BY <2>1, <2>4, <2>5, <2>6, <2>7 DEF TypeOK
    <2>9. QED
      BY <2>4, <2>8
  <1>7. ASSUME NEW c \in Comp, CloseFails(c) \/ Fails(c) PROVE TypeOK' /\ Linked'
    <2>1. /\ cpc[c] \notin {"new"} /\ \E l \in {"ok", "failed"} : cpc' = [cpc EXCEPT ![c] = l]
          /\ cpc[c] = "draw" => cpc'[c] = "failed"
          /\ short' \in {short, short \cup {c}}
          /\ UNCHANGED <<now, bRecordMid, drawn, seed, mid, linked, db, before, files, torn>>
          /\ UNCHANGED <<spc, names, list, rmids, received, drops>>
      BY <1>7 DEF CloseFails, Fails, At, TypeOK, sessions
    <2>2. cpc' \in [Comp -> {"new", "draw", "record", "open", "write", "ok", "failed"}]
      BY <2>1 DEF TypeOK
    <2>3. short' \subseteq Comp
      BY <2>1 DEF TypeOK
    <2>4. TypeOK'
      BY <2>1, <2>2, <2>3 DEF TypeOK
    <2>5. Linked'
      <3>1. \A d \in Comp : linked[d] => cpc'[d] \notin {"new", "draw"}
        BY <2>1 DEF TypeOK, Linked
      <3>2. QED
        BY <2>1, <3>1 DEF Linked
    <2>6. QED
      BY <2>4, <2>5
  <1>8. ASSUME NEW s \in Sess, ReadDir(s) PROVE TypeOK' /\ Linked'
    BY <1>8 DEF ReadDir, TypeOK, Linked, composers
  <1>9. ASSUME NEW s \in Sess, Send(s) PROVE TypeOK' /\ Linked'
    BY <1>9 DEF Send, TypeOK, Linked, composers
  <1>10. ASSUME NEW s \in Sess, DoDelete(s) PROVE TypeOK' /\ Linked'
    <2>1. TypeOK'
      BY <1>10 DEF DoDelete, Ends, TypeOK
    <2>2. Linked'
      BY <1>10 DEF DoDelete, TypeOK, Linked
    <2>3. QED
      BY <2>1, <2>2
  <1>11. ASSUME NEW s \in Sess, Drop(s) PROVE TypeOK' /\ Linked'
    BY <1>11 DEF Drop, Ends, TypeOK, Linked, composers
  <1>12. ASSUME NEW s \in Sess, NEW m \in Mid, ReadFile(s, m) PROVE TypeOK' /\ Linked'
    <2>1. [mid |-> m, text |-> files[m]] \in [mid : Mid, text : Seq(Comp \cup {Hole})]
      BY <1>12 DEF ReadFile, TypeOK
    <2>2. QED
      BY <1>12, <2>1 DEF ReadFile, TypeOK, Linked, composers
  <1>13. ASSUME NEW s \in Sess, NEW m \in Mid, FileGone(s, m) PROVE TypeOK' /\ Linked'
    <2>1. /\ UNCHANGED <<now, cpc, bRecordMid, drawn, seed, mid, linked, db, before, short>>
          /\ UNCHANGED <<rmids, received, drops, files, torn>>
      BY <1>13 DEF FileGone, composers
    <2>2. /\ spc' \in [Sess -> {"idle", "list", "sent"}]
          /\ names' \in [Sess -> SUBSET Mid]
          /\ list' \in [Sess -> SUBSET [mid : Mid, text : Seq(Comp \cup {Hole})]]
      <3> DEFINE L == [mid : Mid, text : Seq(Comp \cup {Hole})]
      <3>1. spc \in [Sess -> {"idle", "list", "sent"}] /\ names \in [Sess -> SUBSET Mid]
        BY DEF TypeOK
      <3>2. list \in [Sess -> SUBSET L]
        BY DEF TypeOK
      <3> HIDE DEF L
      <3>3. list' \in [Sess -> SUBSET L]
        BY <1>13, <3>2 DEF FileGone, Ends
      <3>4. QED
        BY <1>13, <3>1, <3>3 DEF FileGone, Ends, L
    <2>3. TypeOK'
      BY <2>1, <2>2 DEF TypeOK
    <2>4. Linked'
      BY <2>1 DEF Linked
    <2>5. QED
      BY <2>3, <2>4
  <1>14. CASE UNCHANGED vars
    BY <1>14 DEF vars, composers, sessions, TypeOK, Linked
  <1>15. QED
    BY <1>1, <1>2, <1>3, <1>4, <1>5, <1>6, <1>7, <1>8, <1>9, <1>10, <1>11, <1>12, <1>13,
       <1>14 DEF Next

-------------------------------------------------------------------------------
(* What was recorded before a composer was started is not what it draws      *)
(* (generate_mid, check_mid).                                                *)
LEMMA EarlierStep == TypeOK /\ Earlier /\ [Next]_vars => Earlier'
  <1> SUFFICES ASSUME TypeOK, Earlier, [Next]_vars PROVE Earlier'
    OBVIOUS
  <1>1. "none" \notin db
    BY OutboxAssumption DEF TypeOK
  <1>2. ASSUME NEW c \in Comp, Start(c) PROVE Earlier'
    <2>1. /\ cpc[c] = "new" /\ cpc' = [cpc EXCEPT ![c] = "draw"]
          /\ before' = [before EXCEPT ![c] = Recorded] /\ UNCHANGED <<mid, db>>
      BY <1>2 DEF Start, At
    <2>2. \A d \in Recorded : d # c /\ Past(d) /\ Past(d)' /\ mid[d] \in db
      BY <1>1, <2>1 DEF Recorded, Past, Fixed, Earlier, NoMid, TypeOK
    <2>3. \A e \in Comp : \A d \in before[e] : d # c /\ Past(d)'
      BY <2>1 DEF Earlier, Past, Fixed, TypeOK
    <2>4. QED
      BY <2>1, <2>2, <2>3 DEF Earlier, Chosen, TypeOK
  <1>3. ASSUME NEW c \in Comp, Draw(c) PROVE Earlier'
    <2>1. /\ cpc[c] = "draw" /\ UNCHANGED <<db, before>>
          /\ \A d \in Comp \ {c} : cpc'[d] = cpc[d] /\ mid'[d] = mid[d]
          /\ cpc'[c] = "draw" \/ (cpc'[c] = "record" /\ mid'[c] \notin db)
      BY <1>3 DEF Draw, Found, TypeOK
    <2>2. mid'[c] \in Mid
      <3>1. Draws[seed[c]] \in Seq(Mid)
        BY OutboxAssumption DEF TypeOK
      <3>2. drawn[c] \in Nat /\ drawn[c] < Len(Draws[seed[c]])
        BY <1>3 DEF TypeOK, Draw
      <3>3. Draws[seed[c]][drawn[c] + 1] \in Mid
        BY <3>1, <3>2
      <3>4. QED
        BY <1>3, <3>3 DEF Draw, TypeOK
    <2>3. \A e \in Comp : \A d \in before[e] : d # c /\ Past(d)'
      BY <2>1 DEF Earlier, Past, Fixed, TypeOK
    <2>4. \A e \in Comp : before[e] \subseteq Comp
      BY DEF TypeOK
    <2>5. \A e \in Comp : Chosen(e)' => mid'[e] \in Mid
      BY <2>1, <2>2 DEF Earlier, Chosen
    <2>6. ASSUME NEW e \in Comp, NEW d \in before[e]
          PROVE  /\ cpc'[e] # "new" /\ mid'[d] \in db
                 /\ Chosen(e)' => mid'[d] # mid'[e]
      <3>1. d \in Comp /\ d # c /\ mid'[d] = mid[d] /\ mid[d] \in db
        BY <2>1, <2>3, <2>4, <2>6 DEF Earlier
      <3>2. CASE e = c
        BY <2>1, <3>1, <3>2 DEF Chosen
      <3>3. CASE e # c
        BY <2>1, <2>6, <3>1, <3>3 DEF Earlier, Chosen
      <3>4. QED
        BY <3>2, <3>3
    <2>7. \A e \in Comp : cpc'[e] = "new" => mid'[e] = NoMid
      BY <2>1 DEF Earlier
    <2>8. QED
      BY <2>1, <2>3, <2>5, <2>6, <2>7 DEF Earlier
  <1>4. ASSUME NEW c \in Comp,
               Record(c) \/ Open(c) \/ Write(c) \/ Close(c) \/ CloseFails(c) \/ Fails(c)
        PROVE  Earlier'
    <2>1. /\ UNCHANGED <<mid, before>> /\ db \subseteq db'
          /\ \A d \in Comp : Chosen(d)' => Chosen(d)
          /\ \A d \in Comp : Past(d) => Past(d)'
          /\ \A d \in Comp : cpc'[d] = "new" => cpc[d] = "new"
      <3>1. UNCHANGED <<mid, before>> /\ db \subseteq db'
        BY <1>4 DEF Record, Open, Write, Close, Writes, CloseFails, Fails
      <3>2. /\ cpc[c] \notin {"new", "ok", "failed"}
            /\ \/ UNCHANGED cpc
               \/ cpc' = [cpc EXCEPT ![c] = "failed"]
               \/ cpc[c] # "draw"
                  /\ \E l \in {"open", "write", "ok"} : cpc' = [cpc EXCEPT ![c] = l]
        BY <1>4 DEF Record, Open, Write, Close, Writes, CloseFails, Fails, At
      <3>3. cpc \in [Comp -> {"new", "draw", "record", "open", "write", "ok", "failed"}]
        BY DEF TypeOK
      <3>4. \A d \in Comp : Chosen(d)' => Chosen(d)
        BY <3>1, <3>2, <3>3 DEF Chosen
      <3>5. \A d \in Comp : Past(d) => Past(d)'
        BY <3>1, <3>2, <3>3 DEF Past, Fixed
      <3>6. QED
        BY <3>1, <3>2, <3>3, <3>4, <3>5
    <2>2. \A d \in Comp : cpc[d] # "new" => cpc'[d] # "new"
      BY <2>1
    <2>3. QED
      BY <2>1, <2>2 DEF Earlier, TypeOK
  <1>5. CASE UNCHANGED <<cpc, mid, db, before>>
    BY <1>5 DEF Earlier, Chosen, Past, Fixed
  <1>6. QED
    BY <1>2, <1>3, <1>4, <1>5 DEF Next, Tick, ReadDir, Send, DoDelete, Drop, ReadFile,
                                  FileGone, composers, vars

(* Names come from composers only (generate_mid, buildwl2kfile).             *)
LEMMA NamedStep == TypeOK /\ Earlier /\ AllNamed /\ [Next]_vars => AllNamed'
  <1> SUFFICES ASSUME TypeOK, Earlier, AllNamed, [Next]_vars PROVE AllNamed'
    OBVIOUS
  <1>1. \A m : Named(m) => Named(m)'
    BY FixedStays DEF Named
  <1>2. ASSUME NEW c \in Comp, Open(c) \/ Write(c) \/ Close(c) PROVE AllNamed'
    <2>1. UNCHANGED <<list, rmids>>
      BY <1>2 DEF Open, Write, Close, Writes, sessions
    <2>2. \A m \in Mid : files'[m] # NoFile => files[m] # NoFile \/ m = mid[c]
      BY <1>2 DEF Open, Write, Close, Writes, TypeOK
    <2>3. Named(mid[c])
      BY <1>2 DEF Open, Write, Close, At, Named, Fixed
    <2>4. QED
      BY <1>1, <2>1, <2>2, <2>3 DEF AllNamed
  <1>3. ASSUME NEW s \in Sess, Send(s) PROVE AllNamed'
    BY <1>1, <1>3 DEF Send, AllNamed, TypeOK
  <1>4. ASSUME NEW s \in Sess, NEW m \in Mid, ReadFile(s, m) PROVE AllNamed'
    <2>1. /\ files' = files /\ rmids' = rmids /\ Named(m)
          /\ list' = [list EXCEPT ![s] = list[s] \cup {[mid |-> m, text |-> files[m]]}]
      BY <1>4 DEF ReadFile, AllNamed
    <2>2. \A t \in Sess : \A p \in list'[t] : p \in list[t] \/ p.mid = m
      BY <2>1 DEF TypeOK
    <2>3. QED
      BY <1>1, <2>1, <2>2 DEF AllNamed
  <1>5. CASE /\ \A t \in Sess : list'[t] \subseteq list[t]
             /\ \A m \in Mid : files'[m] # NoFile => files[m] # NoFile
             /\ rmids' = rmids
    BY <1>1, <1>5 DEF AllNamed
  <1>6. ASSUME NEW s \in Sess, \/ DoDelete(s) \/ Drop(s)
                               \/ \E m \in Mid : FileGone(s, m)
        PROVE  AllNamed'
    BY <1>5, <1>6, ZenonT(60) DEF DoDelete, Drop, FileGone, Ends, TypeOK
  <1>7. CASE UNCHANGED <<list, files, rmids>>
    BY <1>5, <1>7
  <1>8. QED
    BY <1>2, <1>3, <1>4, <1>6, <1>7
       DEF Next, Tick, Start, Draw, Record, CloseFails, Fails, ReadDir, sessions, vars

(* dodelete() comes after the answers.                                       *)
LEMMA SentStep == TypeOK /\ SentIsThere /\ [Next]_vars => SentIsThere'
  <1> SUFFICES ASSUME TypeOK, SentIsThere, [Next]_vars PROVE SentIsThere'
    OBVIOUS
  <1>1. ASSUME NEW s \in Sess, ReadDir(s) \/ Send(s) \/ DoDelete(s) \/ Drop(s)
        PROVE  SentIsThere'
    BY <1>1, ZenonT(60) DEF ReadDir, Send, DoDelete, Drop, Ends, TypeOK, SentIsThere
  <1>2. ASSUME NEW s \in Sess, NEW m \in Mid, ReadFile(s, m) \/ FileGone(s, m)
        PROVE  SentIsThere'
    BY <1>2 DEF ReadFile, FileGone, Ends, TypeOK, SentIsThere
  <1>3. CASE UNCHANGED <<spc, list, rmids>>
    BY <1>3 DEF SentIsThere
  <1>4. QED
    BY <1>1, <1>2, <1>3 DEF Next, Tick, Start, Draw, Record, Open, Write, Close, Writes,
                            CloseFails, Fails, sessions, vars

-------------------------------------------------------------------------------
(* A step that is neither of c nor touches its file or what was read of it.  *)
LEMMA OwnKept ==
    ASSUME NEW c \in Comp, Own(c), torn \subseteq torn', short \subseteq short',
           cpc'[c] = cpc[c], mid'[c] = mid[c], drawn'[c] = drawn[c], linked'[c] = linked[c],
           files'[mid[c]] = files[mid[c]], rmids' = rmids, received' = received,
           \A s \in Sess : list'[s] \subseteq list[s]
    PROVE  Own(c)'
  <1>1. Listed(mid[c])' => Listed(mid[c])
    BY DEF Listed
  <1>2. Whole(c)' = Whole(c)
    BY DEF Whole
  <1>3. Unused(c) => Unused(c)'
    BY <1>1 DEF Unused
  <1>4. Writing(c) => Writing(c)'
    BY <1>1 DEF Writing
  <1>5. Filed(c) => Filed(c)'
    BY <1>2 DEF Filed
  <1>6. QED
    BY <1>3, <1>4, <1>5 DEF Own

(* The next block behind those that c has written (buildwl2kfile).           *)
LEMMA NextBlock ==
    ASSUME NEW c, NEW k \in Nat
    PROVE  Put([i \in 1 .. k |-> c], k + 1, c) = [i \in 1 .. k + 1 |-> c]
  <1> DEFINE q == [i \in 1 .. k |-> c]
  <1>1. Len(q) = k
    BY DEF q
  <1>2. Put(q, k + 1, c) = [i \in 1 .. k + 1 |->
            IF i = k + 1 THEN c ELSE IF i =< k THEN q[i] ELSE Hole]
    BY <1>1 DEF Put
  <1>3. \A i \in 1 .. k + 1 :
            (IF i = k + 1 THEN c ELSE IF i =< k THEN q[i] ELSE Hole) = c
    OBVIOUS
  <1>4. QED
    BY <1>2, <1>3

(* What a composer does to a file of its own, and to nobody else's.          *)
LEMMA OwnComposed ==
    ASSUME TypeOK, Earlier, Linked, AllNamed, AllOwn, [Next]_vars,
           NEW c \in Comp, ~Clashed(c)',
           NEW d \in Comp,
           \/ Start(d) \/ Draw(d) \/ Record(d) \/ Open(d) \/ Write(d) \/ Close(d)
           \/ CloseFails(d) \/ Fails(d)
    PROVE  Own(c)'
  <1>1. UNCHANGED <<sessions, torn>> /\ short \subseteq short'
    BY DEF Start, Draw, Record, Open, Write, Close, Writes, CloseFails, Fails
  <1>2. ASSUME Fixed(c) PROVE ~Clashed(c) /\ Own(c) /\ mid'[c] = mid[c]
    BY <1>2, ClashStays, FixedStays DEF AllOwn
  <1>3. ASSUME d # c PROVE Own(c)'
    <2>1. cpc'[c] = cpc[c] /\ drawn'[c] = drawn[c] /\ linked'[c] = linked[c]
      BY <1>3 DEF TypeOK, Start, Draw, Record, Open, Write, Close, Writes, CloseFails, Fails, At
    <2>2. CASE Chosen(c)
      <3>1. Fixed(c)
        BY <2>2 DEF Chosen, Fixed
      <3>2. Chosen(d) => mid[d] # mid[c]
        BY <1>2, <1>3, <2>2, <3>1, Apart
      <3>3. files'[mid[c]] = files[mid[c]]
        <4>1. mid[c] \in Mid
          BY <2>2 DEF Earlier
        <4>2. CASE Open(d) \/ Write(d) \/ Close(d)
          <5>1. mid[d] # mid[c]
            BY <3>2, <4>2 DEF Chosen, Open, Write, Close, At
          <5>2. QED
            BY <4>1, <4>2, <5>1 DEF Open, Write, Close, Writes, TypeOK
        <4>3. CASE files' = files
          BY <4>3
        <4>4. QED
          BY <4>2, <4>3 DEF Start, Draw, Record, CloseFails, Fails
      <3>4. QED
        BY <1>1, <1>2, <2>1, <3>1, <3>3, OwnKept DEF sessions
    <2>3. CASE ~Chosen(c)
      BY <2>1, <2>3 DEF Own, Chosen
    <2>4. QED
      BY <2>2, <2>3
  <1>4. ASSUME d = c PROVE Own(c)'
    <2>1. CASE Start(c) \/ Fails(c)
      BY <2>1 DEF Start, Fails, At, Own, TypeOK
    <2>2. CASE Draw(c)
      <3>1. CASE cpc'[c] = "draw"
        BY <3>1 DEF Own
      <3>2. CASE cpc'[c] = "record"
        <4>1. /\ mid'[c] \notin db /\ UNCHANGED <<db, files, before>>
              /\ \A e \in Comp \ {c} : cpc'[e] = cpc[e] /\ mid'[e] = mid[e]
          BY <2>2, <3>2 DEF Draw, Found, TypeOK
        <4>2. \A e \in Comp : c \notin before[e]
          BY <2>2 DEF Draw, Earlier, Past, Fixed
        <4>3. \A e \in before[c] : mid[e] \in db
          BY DEF Earlier
        <4>4. ~Named(mid'[c])
          <5>1. ASSUME NEW e \in Comp, Fixed(e), mid[e] = mid'[c] PROVE FALSE
            <6>1. e # c
              BY <2>2, <5>1 DEF Draw, Fixed
            <6>2. Fixed(e)' /\ mid'[e] = mid'[c] /\ e \notin before'[c] /\ c \notin before'[e]
              BY <4>1, <4>2, <4>3, <5>1, <6>1 DEF Fixed
            <6>3. Clashed(c)'
              BY <6>1, <6>2 DEF Clashed
            <6>4. QED
              BY <6>3
          <5>2. QED
            BY <5>1 DEF Named
        <4>5. mid'[c] \in Mid
          BY <3>2, EarlierStep DEF Earlier, Chosen
        <4>6. Unused(c)'
          BY <1>1, <4>1, <4>4, <4>5 DEF AllNamed, Unused, Listed, sessions
        <4>7. QED
          BY <3>2, <4>6 DEF Own
      <3>3. QED
        BY <2>2, <3>1, <3>2 DEF Draw, TypeOK
    <2>3. CASE Record(c)
      <3>1. cpc[c] = "record" /\ cpc'[c] = "open" /\ UNCHANGED <<mid, files>>
        BY <2>3 DEF Record, At, TypeOK
      <3>2. Unused(c)
        BY <1>2, <3>1 DEF Fixed, Own
      <3>3. Unused(c)'
        BY <1>1, <3>1, <3>2 DEF Unused, Listed, sessions
      <3>4. QED
        BY <3>1, <3>3 DEF Own
    <2>4. CASE Open(c)
      <3>1. /\ cpc[c] = "open" /\ cpc'[c] = "write" /\ mid' = mid /\ mid[c] \in Mid
            /\ drawn'[c] = 0 /\ linked'[c] = TRUE /\ files'[mid[c]] = <<>>
        BY <2>4 DEF Open, At, TypeOK, Earlier, Chosen
      <3>2. Unused(c)
        BY <1>2, <3>1 DEF Fixed, Own
      <3>3. <<>> = [i \in 1 .. 0 |-> c]
        OBVIOUS
      <3>4. Writing(c)'
        BY <1>1, <3>1, <3>2, <3>3 DEF Unused, Writing, Listed, sessions
      <3>5. QED
        BY <3>1, <3>4 DEF Own
    <2>5. CASE Write(c) \/ Close(c)
      <3>1. /\ cpc[c] = "write" /\ UNCHANGED <<mid, linked>> /\ mid[c] \in Mid
            /\ drawn[c] \in Nat /\ drawn'[c] = drawn[c] + 1
            /\ linked[c] => files'[mid[c]] = Put(files[mid[c]], drawn[c] + 1, c)
            /\ cpc'[c] = "write" \/ (cpc'[c] = "ok" /\ drawn[c] = Blocks - 1)
        BY <2>5 DEF Write, Close, Writes, At, TypeOK, Earlier, Chosen
      <3>2. CASE c \notin torn
        <4>1. Writing(c)
          BY <1>2, <3>1, <3>2 DEF Fixed, Own
        <4>2. files'[mid[c]] = [i \in 1 .. drawn[c] + 1 |-> c]
          BY <3>1, <4>1, NextBlock DEF Writing
        <4>3. CASE cpc'[c] = "write"
          <5>1. Writing(c)'
            BY <1>1, <3>1, <4>1, <4>2 DEF Writing, Listed, sessions
          <5>2. QED
            BY <4>3, <5>1 DEF Own
        <4>4. CASE cpc'[c] = "ok" /\ drawn[c] = Blocks - 1
          <5>1. drawn[c] + 1 = Blocks
            BY <4>4, OutboxAssumption
          <5>2. files'[mid[c]] = Whole(c)
            BY <4>2, <5>1 DEF Whole
          <5>3. Filed(c)'
            BY <1>1, <3>1, <4>1, <5>2 DEF Writing, Filed, Listed, Whole, sessions
          <5>4. QED
            BY <4>4, <5>3 DEF Own
        <4>5. QED
          BY <3>1, <4>3, <4>4
      <3>3. CASE c \in torn
        BY <1>1, <3>1, <3>3 DEF Own
      <3>4. QED
        BY <3>2, <3>3
    <2>6. CASE CloseFails(c)
      BY <2>6 DEF CloseFails, At, TypeOK, Own
    <2>7. QED
      BY <1>4, <2>1, <2>2, <2>3, <2>4, <2>5, <2>6
  <1>5. QED
    BY <1>3, <1>4

(* What a session does to a file that is nobody else's.                      *)
LEMMA OwnInSession ==
    ASSUME TypeOK, Earlier, SentIsThere, AllOwn, [Next]_vars,
           NEW c \in Comp, ~Clashed(c)', NEW s \in Sess,
           \/ ReadDir(s) \/ Send(s) \/ DoDelete(s) \/ Drop(s)
           \/ \E m \in Mid : ReadFile(s, m) \/ FileGone(s, m)
    PROVE  Own(c)'
  <1>1. UNCHANGED <<cpc, mid, drawn, before, short>> /\ torn \subseteq torn'
    BY DEF ReadDir, Send, DoDelete, Drop, ReadFile, FileGone, composers
  <1>2. CASE ~Chosen(c)
    BY <1>1, <1>2 DEF Own, Chosen
  <1>3. CASE Chosen(c)
    <2>1. Own(c) /\ mid[c] \in Mid
      <3>1. Fixed(c)
        BY <1>3 DEF Chosen, Fixed
      <3>2. ~Clashed(c)
        BY <3>1, ClashStays
      <3>3. QED
        BY <1>3, <3>2 DEF AllOwn, Earlier
    <2>2. CASE ReadDir(s) \/ Drop(s) \/ \E m \in Mid : FileGone(s, m)
      <3>1. UNCHANGED <<linked, files, rmids, received>>
            /\ \A t \in Sess : list'[t] \subseteq list[t]
        BY <2>2 DEF ReadDir, Drop, FileGone, Ends, TypeOK, composers
      <3>2. QED
        BY <1>1, <2>1, <3>1, OwnKept
    <2>3. ASSUME NEW m \in Mid, ReadFile(s, m) PROVE Own(c)'
      <3>1. /\ UNCHANGED <<linked, files, rmids, received>> /\ files[m] # NoFile
            /\ cpc[c] = "write" /\ mid[c] = m => c \in torn'
            /\ list' = [list EXCEPT ![s] = list[s] \cup {[mid |-> m, text |-> files[m]]}]
        BY <2>3 DEF ReadFile, composers
      <3>2. \A t \in Sess : \A p \in list'[t] :
                p \in list[t] \/ (p.mid = m /\ p.text = files[m])
        BY <3>1 DEF TypeOK
      <3>3. Listed(mid[c])' => Listed(mid[c]) \/ mid[c] = m
        BY <1>1, <3>2 DEF Listed
      <3>4. Unused(c) => Unused(c)'
        BY <1>1, <3>1, <3>3 DEF Unused
      <3>5. Writing(c) /\ mid[c] # m => Writing(c)'
        BY <1>1, <3>1, <3>3 DEF Writing
      <3>6. Filed(c) => Filed(c)'
        <4> SUFFICES ASSUME Filed(c) PROVE Filed(c)'
          OBVIOUS
        <4>1. mid[c] = m => files[m] = Whole(c)
          BY <3>1 DEF Filed
        <4>2. \A t \in Sess : \A p \in list'[t] : p.mid = mid[c] => p.text = Whole(c)
          BY <3>2, <4>1 DEF Filed
        <4>3. QED
          BY <1>1, <3>1, <4>2 DEF Filed, Whole
      <3>7. QED
        BY <1>1, <2>1, <3>1, <3>4, <3>5, <3>6 DEF Own
    <2>4. CASE Send(s)
      <3>1. /\ UNCHANGED <<linked, files, list>>
            /\ rmids' = rmids \cup {p.mid : p \in list[s]}
            /\ received' = received \cup {p.text : p \in {q \in list[s] : q.mid \notin rmids}}
        BY <2>4 DEF Send, composers
      <3>2. Listed(mid[c])' <=> Listed(mid[c])
        BY <1>1, <3>1 DEF Listed
      <3>3. mid[c] \in rmids' => mid[c] \in rmids \/ Listed(mid[c])
        BY <3>1 DEF Listed
      <3>4. Unused(c) => Unused(c)'
        BY <1>1, <3>1, <3>2, <3>3 DEF Unused
      <3>5. Writing(c) => Writing(c)'
        BY <1>1, <3>1, <3>2, <3>3 DEF Writing
      <3>6. Filed(c) => Filed(c)'
        <4> SUFFICES ASSUME Filed(c) PROVE Filed(c)'
          OBVIOUS
        <4>1. ASSUME mid[c] \in rmids', mid[c] \notin rmids PROVE Whole(c) \in received'
          <5>1. PICK p \in list[s] : p.mid = mid[c]
            BY <3>1, <4>1
          <5>2. p.text = Whole(c)
            BY <5>1 DEF Filed
          <5>3. QED
            BY <3>1, <4>1, <5>1, <5>2
        <4>2. received \subseteq received'
          BY <3>1
        <4>3. QED
          BY <1>1, <3>1, <4>1, <4>2 DEF Filed, Whole
      <3>7. QED
        BY <1>1, <2>1, <3>4, <3>5, <3>6 DEF Own
    <2>5. CASE DoDelete(s)
      <3>1. /\ spc[s] = "sent" /\ list' = [list EXCEPT ![s] = {}] /\ UNCHANGED <<rmids, received>>
            /\ \A m \in Mid : files'[m] = IF \E p \in list[s] : p.mid = m THEN NoFile ELSE files[m]
            /\ linked'[c] = (linked[c] /\ files'[mid[c]] # NoFile)
        BY <2>5 DEF DoDelete, Ends
      <3>2. \A t \in Sess : list'[t] \subseteq list[t]
        BY <3>1 DEF TypeOK
      <3>3. CASE Listed(mid[c])
        <4>1. Unused(c) => Unused(c)'
          BY <3>3 DEF Unused
        <4>2. Writing(c) => Writing(c)'
          BY <3>3 DEF Writing
        <4>3. Filed(c) => Filed(c)'
          <5> SUFFICES ASSUME Filed(c) PROVE Filed(c)'
            OBVIOUS
          <5>1. CASE \E p \in list[s] : p.mid = mid[c]
            <6>1. mid[c] \in rmids
              BY <3>1, <5>1 DEF SentIsThere
            <6>2. files'[mid[c]] = NoFile /\ Whole(c) \in received
              BY <2>1, <3>1, <5>1, <6>1 DEF Filed
            <6>3. QED
              BY <1>1, <3>1, <3>2, <6>2 DEF Filed, Whole
          <5>2. CASE ~ \E p \in list[s] : p.mid = mid[c]
            <6>1. files'[mid[c]] = files[mid[c]]
              BY <2>1, <3>1, <5>2
            <6>2. QED
              BY <1>1, <3>1, <3>2, <6>1 DEF Filed, Whole
          <5>3. QED
            BY <5>1, <5>2
        <4>4. QED
          BY <1>1, <2>1, <4>1, <4>2, <4>3 DEF Own
      <3>4. CASE ~Listed(mid[c])
        <4>1. files'[mid[c]] = files[mid[c]] /\ ~Listed(mid[c])'
          BY <1>1, <2>1, <3>1, <3>2, <3>4 DEF Listed
        <4>2. Unused(c) => Unused(c)'
          BY <1>1, <3>1, <4>1 DEF Unused
        <4>3. Writing(c) => Writing(c)'
          <5> SUFFICES ASSUME Writing(c) PROVE Writing(c)'
            OBVIOUS
          <5>1. files[mid[c]] # NoFile
            <6>1. files[mid[c]] = [i \in 1 .. drawn[c] |-> c] /\ drawn[c] \in Nat
              BY DEF Writing, TypeOK
            <6>2. NoFile[1] = "none" /\ DOMAIN NoFile = 1 .. 1
              BY DEF NoFile
            <6>3. ASSUME files[mid[c]] = NoFile PROVE c = "none"
              <7>1. 1 \in 1 .. drawn[c]
                <8>1. DOMAIN [i \in 1 .. drawn[c] |-> c] = 1 .. 1
                  BY <6>1, <6>2, <6>3
                <8>2. 1 .. drawn[c] = 1 .. 1
                  BY <8>1
                <8>3. QED
                  BY <8>2
              <7>2. QED
                BY <6>1, <6>2, <6>3, <7>1
            <6>4. QED
              BY <6>3, OutboxAssumption
          <5>2. QED
            BY <1>1, <3>1, <4>1, <5>1 DEF Writing
        <4>4. Filed(c) => Filed(c)'
          BY <1>1, <3>1, <3>2, <4>1 DEF Filed, Whole
        <4>5. QED
          BY <1>1, <2>1, <4>2, <4>3, <4>4 DEF Own
      <3>5. QED
        BY <3>3, <3>4
    <2>6. QED
      BY <2>2, <2>3, <2>4, <2>5
  <1>4. QED
    BY <1>2, <1>3

-------------------------------------------------------------------------------
(* The inductive invariant.                                                  *)
LEMMA InvInit == Init => Inv
  <1> SUFFICES ASSUME Init PROVE Inv
    OBVIOUS
  <1>1. TypeOK
    BY OutboxAssumption DEF Init, TypeOK
  <1>2. Earlier /\ Linked /\ AllNamed /\ SentIsThere /\ AllOwn
    BY DEF Init, Earlier, Chosen, Linked, AllNamed, SentIsThere, AllOwn, Own
  <1>3. QED
    BY <1>1, <1>2 DEF Inv

(* Every step keeps it: of a composer, of a session, of the clock.           *)
LEMMA InvStep == Inv /\ [Next]_vars => Inv'
  <1> SUFFICES ASSUME Inv, [Next]_vars PROVE Inv'
    OBVIOUS
  <1>1. AllOwn'
    <2> SUFFICES ASSUME NEW c \in Comp, ~Clashed(c)' PROVE Own(c)'
      BY DEF AllOwn
    <2>1. CASE UNCHANGED <<cpc, mid, drawn, linked, files, before, sessions, torn, short>>
      <3>1. Clashed(c)' <=> Clashed(c)
        BY <2>1 DEF Clashed, Fixed
      <3>2. Own(c)
        BY <3>1 DEF Inv, AllOwn
      <3>3. QED
        BY <2>1, <3>2, OwnKept DEF sessions
    <2>2. QED
      BY <2>1, OwnComposed, OwnInSession DEF Inv, Next, Tick, vars, composers
  <1>2. QED
    BY <1>1, TypeStep, EarlierStep, NamedStep, SentStep DEF Inv

(* Whoever takes a step, who has drawn which identifier explains what is in  *)
(* the outbox, in a session's list and with the other station.               *)
THEOREM InvHolds == Spec => []Inv
  BY InvInit, InvStep, PTL DEF Spec

(* Every variable keeps its type.                                            *)
THEOREM TypeCorrect == Spec => []TypeOK
  <1>1. Inv => TypeOK
    BY DEF Inv
  <1>2. QED
    BY <1>1, InvHolds, PTL

(* A message that mail.wl2k has filed is in the outbox in full, or with the  *)
(* other station, unless a session read its file too early, fclose() failed  *)
(* or another run of mail.wl2k drew the same identifier unseen.              *)
THEOREM FiledIsAccounted == Spec => []Accounted
  <1>1. Inv => Accounted
    <2> SUFFICES ASSUME Inv, NEW c \in Comp, cpc[c] = "ok", ~Explained(c)
                 PROVE  files[mid[c]] = Whole(c) \/ Whole(c) \in received
      BY DEF Accounted
    <2>1. ~Clashed(c) /\ c \notin torn \cup short
      BY DEF Explained, Clashed, Clash
    <2>2. Filed(c)
      BY <2>1 DEF Inv, AllOwn, Own
    <2>3. QED
      BY <2>2 DEF Filed
  <1>2. QED
    BY <1>1, InvHolds, PTL
===============================================================================
