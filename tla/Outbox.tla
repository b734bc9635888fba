--------------------------------- MODULE Outbox ---------------------------------
(***************************************************************************)
(* The outbox directory, which programs share without a lock: each mail.wl2k *)
(* draws a message identifier and writes one file of that name; each session *)
(* reads the files, sends them and deletes them.  What a session says to the *)
(* other station is the subject of Exchange; here it offers, sends, deletes. *)
(***************************************************************************)
EXTENDS Integers, Sequences, FiniteSets

CONSTANTS
    Comp,         \* runs of mail.wl2k
    Sess,         \* programs that hold one session after the other
    Mid,
    Draws,        \* for each second: the identifiers random() gives from then on
    Blocks,       \* of a message: buffers stdio writes it in
    MaxDrops      \* bound: sessions that end early

ASSUME OutboxAssumption ==
    /\ Blocks \in Nat \ {0} /\ MaxDrops \in Nat
    /\ Draws \in Seq(Seq(Mid)) /\ Draws # <<>>
    /\ "none" \notin Mid \cup Comp

VARIABLES
    now,          \* the second
    cpc,          \* of each composer: new, draw, record, open, write, ok, failed
    bRecordMid, drawn, seed, mid,
    linked,       \* the file it writes is still in the directory
    db,           \* identifiers in the database
    files,        \* of each identifier: the blocks of its file, or NoFile
    spc, names, list,             \* of each session: idle, list, sent; what it has
                                  \* still to read; what it has read
    rmids, received,              \* identifiers and texts with the other station
    drops,
    before, torn, short   \* history: composers that had recorded their identifiers when
                          \* each started; those read while writing; those cut at the close

composers == <<now, cpc, bRecordMid, drawn, seed, mid, linked, db, before, short>>
sessions  == <<spc, names, list, rmids, received, drops>>
vars      == <<composers, sessions, files, torn>>

NoFile == <<"none">>
NoMid  == "none"
Hole   == "hole"

TypeOK ==
    /\ now \in 1 .. Len(Draws)
    /\ cpc \in [Comp -> {"new", "draw", "record", "open", "write", "ok", "failed"}]
    /\ bRecordMid \in [Comp -> BOOLEAN] /\ linked \in [Comp -> BOOLEAN]
    /\ drawn \in [Comp -> Nat] /\ seed \in [Comp -> 1 .. Len(Draws)]
    /\ mid \in [Comp -> Mid \cup {NoMid}] /\ db \subseteq Mid
    /\ files \in [Mid -> {NoFile} \cup Seq(Comp \cup {Hole})]
    /\ spc \in [Sess -> {"idle", "list", "sent"}]
    /\ names \in [Sess -> SUBSET Mid]
    /\ list \in [Sess -> SUBSET [mid : Mid, text : Seq(Comp \cup {Hole})]]
    /\ rmids \subseteq Mid /\ received \subseteq Seq(Comp \cup {Hole})
    /\ drops \in 0 .. MaxDrops
    /\ before \in [Comp -> SUBSET Comp] /\ torn \subseteq Comp /\ short \subseteq Comp

Init ==
    /\ now = 1
    /\ cpc = [c \in Comp |-> "new"]
    /\ bRecordMid \in [Comp -> BOOLEAN]
    /\ drawn = [c \in Comp |-> 0] /\ seed = [c \in Comp |-> 1]
    /\ mid = [c \in Comp |-> NoMid]
    /\ linked = [c \in Comp |-> FALSE]
    /\ db = {} /\ files = [m \in Mid |-> NoFile]
    /\ spc = [s \in Sess |-> "idle"]
    /\ names = [s \in Sess |-> {}] /\ list = [s \in Sess |-> {}]
    /\ rmids = {} /\ received = {} /\ drops = 0
    /\ before = [c \in Comp |-> {}] /\ torn = {} /\ short = {}

-------------------------------------------------------------------------------
(* mail.wl2k.  random() is seeded with the time in seconds.                  *)
Tick ==
    /\ now < Len(Draws) /\ now' = now + 1
    /\ UNCHANGED <<cpc, bRecordMid, drawn, seed, mid, linked, db, before, short,
                   sessions, files, torn>>

At(c, here, there) == cpc[c] = here /\ cpc' = [cpc EXCEPT ![c] = there]

Recorded == {d \in Comp : mid[d] \in db /\ bRecordMid[d] /\ cpc[d] \notin {"draw", "record"}}

Start(c) ==
    /\ At(c, "new", "draw")
    /\ seed' = [seed EXCEPT ![c] = now]
    /\ before' = [before EXCEPT ![c] = Recorded]
    /\ UNCHANGED <<now, bRecordMid, drawn, mid, linked, db, short, sessions, files, torn>>

(* Mutant: what check_mid() answers is not looked at.                        *)
Found_Never(m) == FALSE

Found(m) == m \in db

(* One turn of the loop in generate_mid().                                   *)
Draw(c) ==
    /\ cpc[c] = "draw" /\ drawn[c] < Len(Draws[seed[c]])
    /\ drawn' = [drawn EXCEPT ![c] = @ + 1]
    /\ mid' = [mid EXCEPT ![c] = Draws[seed[c]][drawn[c] + 1]]
    /\ cpc' = [cpc EXCEPT ![c] = IF Found(mid'[c]) THEN "draw" ELSE "record"]
    /\ UNCHANGED <<now, bRecordMid, seed, linked, db, before, short, sessions, files, torn>>

(* That record_mid() failed is not looked at.                                *)
Record(c) ==
    /\ At(c, "record", "open")
    /\ \/ bRecordMid[c] /\ db' = db \cup {mid[c]}
       \/ UNCHANGED db
    /\ UNCHANGED <<now, bRecordMid, drawn, seed, mid, linked, before, short,
                   sessions, files, torn>>

(* fopen(mid, "w") empties a file that is there.                             *)
Open(c) ==
    /\ At(c, "open", "write")
    /\ files' = [files EXCEPT ![mid[c]] = <<>>]
    /\ linked' = [linked EXCEPT ![c] = TRUE]
    /\ drawn' = [drawn EXCEPT ![c] = 0]           \* from here on: blocks written
    /\ UNCHANGED <<now, bRecordMid, seed, mid, db, before, short, sessions, torn>>

(* The k-th block of c in a file that another composer may have emptied.     *)
Put(text, k, c) ==
    [i \in 1 .. (IF Len(text) > k THEN Len(text) ELSE k) |->
        IF i = k THEN c ELSE IF i =< Len(text) THEN text[i] ELSE Hole]

Writes(c) ==
    /\ drawn' = [drawn EXCEPT ![c] = @ + 1]
    /\ files' = IF linked[c]
                THEN [files EXCEPT ![mid[c]] = Put(@, drawn[c] + 1, c)] ELSE files
    /\ UNCHANGED <<now, bRecordMid, seed, mid, linked, db, before, sessions, torn>>

Write(c) ==
    /\ cpc[c] = "write" /\ drawn[c] < Blocks - 1
    /\ Writes(c) /\ UNCHANGED <<cpc, short>>

(* fclose() writes the last block.                                           *)
Close(c) ==
    /\ At(c, "write", "ok") /\ drawn[c] = Blocks - 1
    /\ Writes(c) /\ UNCHANGED short

(* That it could not is not looked at.                                       *)
CloseFails(c) ==
    /\ At(c, "write", "ok") /\ drawn[c] = Blocks - 1
    /\ short' = short \cup {c}
    /\ UNCHANGED <<now, bRecordMid, drawn, seed, mid, linked, db, before,
                   sessions, files, torn>>

(* Errors of the database, of fopen() and putc(), and the 60 s alarm.        *)
Fails(c) ==
    /\ cpc[c] \in {"draw", "record", "open", "write"}
    /\ cpc' = [cpc EXCEPT ![c] = "failed"]
    /\ UNCHANGED <<now, bRecordMid, drawn, seed, mid, linked, db, before, short,
                   sessions, files, torn>>

-------------------------------------------------------------------------------
(* A session.                                                                *)
ReadDir(s) ==
    /\ spc[s] = "idle" /\ spc' = [spc EXCEPT ![s] = "list"]
    /\ names' = [names EXCEPT ![s] = {m \in Mid : files[m] # NoFile}]
    /\ UNCHANGED <<composers, list, rmids, received, drops, files, torn>>

ReadFile(s, m) ==
    /\ spc[s] = "list" /\ m \in names[s] /\ files[m] # NoFile
    /\ names' = [names EXCEPT ![s] = @ \ {m}]
    /\ list' = [list EXCEPT ![s] = @ \cup {[mid |-> m, text |-> files[m]]}]
    /\ torn' = torn \cup {c \in Comp : cpc[c] = "write" /\ mid[c] = m}
    /\ UNCHANGED <<composers, spc, rmids, received, drops, files>>

Ends(s) ==
    /\ spc' = [spc EXCEPT ![s] = "idle"]
    /\ names' = [names EXCEPT ![s] = {}] /\ list' = [list EXCEPT ![s] = {}]

(* stat() fails, and the name is passed over; behind stat(), the program ends. *)
FileGone(s, m) ==
    /\ spc[s] = "list" /\ m \in names[s] /\ files[m] = NoFile
    /\ \/ names' = [names EXCEPT ![s] = @ \ {m}] /\ UNCHANGED <<spc, list>>
       \/ Ends(s)
    /\ UNCHANGED <<composers, rmids, received, drops, files, torn>>

(* The other station takes what it does not have.                            *)
Send(s) ==
    /\ spc[s] = "list" /\ names[s] = {} /\ spc' = [spc EXCEPT ![s] = "sent"]
    /\ rmids' = rmids \cup {p.mid : p \in list[s]}
    /\ received' = received \cup {p.text : p \in {q \in list[s] : q.mid \notin rmids}}
    /\ UNCHANGED <<composers, names, list, drops, files, torn>>

(* Mutant: the files are deleted when the proposals are answered.            *)
DoDelete_Early(s) ==
    /\ spc[s] # "idle" /\ names[s] = {} /\ Ends(s)
    /\ files' = [m \in Mid |-> IF \E p \in list[s] : p.mid = m THEN NoFile ELSE files[m]]
    /\ linked' = [c \in Comp |-> linked[c] /\ files'[mid[c]] # NoFile]
    /\ UNCHANGED <<now, cpc, bRecordMid, drawn, seed, mid, db, before, short,
                   rmids, received, drops, torn>>

(* dodelete() unlinks by name what was sent and what was turned down.        *)
DoDelete(s) ==
    /\ spc[s] = "sent" /\ Ends(s)
    /\ files' = [m \in Mid |-> IF \E p \in list[s] : p.mid = m THEN NoFile ELSE files[m]]
    /\ linked' = [c \in Comp |-> linked[c] /\ files'[mid[c]] # NoFile]
    /\ UNCHANGED <<now, cpc, bRecordMid, drawn, seed, mid, db, before, short,
                   rmids, received, drops, torn>>

(* The link goes, or the program dies.                                       *)
Drop(s) ==
    /\ spc[s] # "idle" /\ Ends(s)
    /\ drops < MaxDrops /\ drops' = drops + 1
    /\ UNCHANGED <<composers, rmids, received, files, torn>>

Next ==
    \/ Tick
    \/ \E c \in Comp : \/ Start(c) \/ Draw(c) \/ Record(c) \/ Open(c) \/ Write(c)
                       \/ Close(c) \/ CloseFails(c) \/ Fails(c)
    \/ \E s \in Sess : \/ ReadDir(s) \/ Send(s) \/ DoDelete(s) \/ Drop(s)
                       \/ \E m \in Mid : ReadFile(s, m) \/ FileGone(s, m)

Spec == Init /\ [][Next]_vars

-------------------------------------------------------------------------------
Whole(c) == [i \in 1 .. Blocks |-> c]

(* The three ways the code can lose a message that mail.wl2k has reported as *)
(* filed: a session read the file while it was written; a run of mail.wl2k   *)
(* that could not know the identifier drew the same; fclose() failed.        *)
Clash(c) ==
    \E d \in Comp \ {c} : mid[d] = mid[c] /\ d \notin before[c] /\ c \notin before[d]
Explained(c) == c \in torn \cup short \/ Clash(c)

(* Whatever sessions and composers do to the outbox at the same time, a      *)
(* message that was filed is in it, or with the other station, or was lost   *)
(* in one of these ways.                                                     *)
Accounted ==
    \A c \in Comp : cpc[c] = "ok" =>
        files[mid[c]] = Whole(c) \/ Whole(c) \in received \/ Explained(c)
===============================================================================
