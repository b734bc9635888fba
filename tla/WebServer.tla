------------------------------- MODULE WebServer -------------------------------
(***************************************************************************)
(* The web control server (webapp/plu-server.js): browsers connect, start    *)
(* wl2ktelnet, wl2kax25, wl2kserial or ls with a button and stop them with   *)
(* another; the colour of a third shows whether there is mail to send.       *)
(* Every callback of the server's event loop is one step.                    *)
(***************************************************************************)
EXTENDS Integers, Sequences, FiniteSets

CONSTANTS
    Conn,        \* connections, each used once
    Proc,        \* child processes, each started once
    MaxInbox,    \* bound: messages of one browser on their way
    MaxFiles     \* bound: files in the outbox

ASSUME WebAssumption ==
    /\ Conn # {}
    /\ MaxInbox \in Nat \ {0} /\ MaxFiles \in Nat \ {0}

VARIABLES
    up,          \* the server runs
    conn,        \* of each connection: new, open, closed
    inbox,       \* messages of its browser not yet handled
    pluClients,  \* the server's list of connections
    chillens,    \* of each connection: its list of children
    state,       \* of each child: new, running, gone
    owner,       \* and the connection it was started for
    outbox,      \* files in it
    event,       \* connections with a pending fs.watch callback
    colour,      \* of each browser's Outbox button
    signalled    \* children that were sent SIGINT

procVars == <<chillens, state, owner>>
fileVars == <<outbox, event, colour>>
vars     == <<up, conn, inbox, pluClients, procVars, fileVars, signalled>>

Message == {"start", "kill"}

TypeOK ==
    /\ up \in BOOLEAN
    /\ conn \in [Conn -> {"new", "open", "closed"}]
    /\ inbox \in [Conn -> Seq(Message)]
    /\ pluClients \in Seq(Conn)
    /\ chillens \in [Conn -> Seq(Proc)]
    /\ state \in [Proc -> {"new", "running", "gone"}]
    /\ owner \in [Proc -> Conn]
    /\ outbox \in 0 .. MaxFiles
    /\ event \subseteq Conn
    /\ colour \in [Conn -> {"unset", "", "green"}]
    /\ signalled \subseteq Proc

Open == {c \in Conn : conn[c] = "open"}

Init ==
    /\ up = TRUE
    /\ conn = [c \in Conn |-> "new"]
    /\ inbox = [c \in Conn |-> <<>>]
    /\ pluClients = <<>>
    /\ chillens = [c \in Conn |-> <<>>]
    /\ state = [p \in Proc |-> "new"]
    /\ owner = [p \in Proc |-> CHOOSE c \in Conn : TRUE]     \* until it is started
    /\ outbox \in 0 .. MaxFiles
    /\ event = {}
    /\ colour = [c \in Conn |-> "unset"]
    /\ signalled = {}

-------------------------------------------------------------------------------
Connect(c) ==
    /\ up /\ conn[c] = "new"
    /\ conn' = [conn EXCEPT ![c] = "open"]
    /\ pluClients' = Append(pluClients, c)
    /\ UNCHANGED <<up, inbox, procVars, fileVars, signalled>>

(* A button of the browser is pressed.                                       *)
Press(c, button) ==
    /\ c \in Open /\ Len(inbox[c]) < MaxInbox
    /\ inbox' = [inbox EXCEPT ![c] = Append(@, button)]
    /\ UNCHANGED <<up, conn, pluClients, procVars, fileVars, signalled>>

(* The list of clients is left as it is: no user name is ever set.           *)
Close(c) ==
    /\ c \in Open
    /\ conn' = [conn EXCEPT ![c] = "closed"]
    /\ inbox' = [inbox EXCEPT ![c] = <<>>]
    /\ UNCHANGED <<up, pluClients, procVars, fileVars, signalled>>

-------------------------------------------------------------------------------
(* connection.on('message')                                                  *)
Handle(c, button) ==
    /\ up /\ inbox[c] # <<>> /\ Head(inbox[c]) = button
    /\ inbox' = [inbox EXCEPT ![c] = Tail(@)]

HandleStart(c, p) ==
    /\ Handle(c, "start")
    /\ state[p] = "new"
    /\ state' = [state EXCEPT ![p] = "running"]
    /\ owner' = [owner EXCEPT ![p] = c]
    /\ chillens' = [chillens EXCEPT ![c] = Append(@, p)]
    /\ UNCHANGED <<up, conn, pluClients, fileVars, signalled>>

(* A program that is not there: nothing listens to the child's error event.  *)
Stops ==
    /\ up' = FALSE
    /\ conn' = [c \in Conn |-> IF conn[c] = "open" THEN "closed" ELSE conn[c]]
    /\ inbox' = [c \in Conn |-> <<>>]
    /\ pluClients' = <<>> /\ event' = {}
    /\ chillens' = [c \in Conn |-> <<>>]
    /\ UNCHANGED <<state, owner, outbox, colour, signalled>>

SpawnFails(c) ==
    /\ up /\ inbox[c] # <<>> /\ Head(inbox[c]) = "start"
    /\ Stops

(* killWorkers(): the list is spliced by the loop that walks along it, so    *)
(* every second child is passed over.                                        *)
Signalled(list)  == {list[i] : i \in {j \in 1 .. Len(list) : j % 2 = 1}}
PassedOver(list) == [i \in 1 .. Len(list) \div 2 |-> list[2 * i]]

HandleKill(c) ==
    /\ Handle(c, "kill")
    /\ chillens' = [chillens EXCEPT ![c] = PassedOver(@)]
    /\ signalled' = signalled \cup Signalled(chillens[c])
    /\ UNCHANGED <<up, conn, pluClients, state, owner, fileVars>>

(* A child's exit event.  indexOf() gives -1 for a child that was signalled, *)
(* and splice(-1, 1) takes the last of the list instead.                     *)
Spliced(list, i) == [j \in 1 .. Len(list) - 1 |-> IF j < i THEN list[j] ELSE list[j + 1]]
At(list, p)      == {i \in 1 .. Len(list) : list[i] = p}

(* Mutants: the child stays in the list; the last one is taken off.          *)
ExitHandled_Stays(list, p) == list
ExitHandled_Last(list, p)  == Spliced(list, Len(list))

ExitHandled(list, p) ==
    IF list = <<>> THEN list
    ELSE Spliced(list, IF At(list, p) = {} THEN Len(list) ELSE CHOOSE i \in At(list, p) : TRUE)

ChildExit(p) ==
    /\ state[p] = "running"
    /\ state' = [state EXCEPT ![p] = "gone"]
    /\ chillens' = [chillens EXCEPT ![owner[p]] = ExitHandled(@, p)]
    /\ UNCHANGED <<up, conn, inbox, pluClients, owner, fileVars, signalled>>

-------------------------------------------------------------------------------
(* mail.wl2k and the sessions of the clients change the outbox, and every    *)
(* connection that was ever opened has a watcher on it.                      *)
FilesChange ==
    /\ outbox' \in {outbox - 1, outbox + 1} \cap 0 .. MaxFiles
    /\ event' = IF up THEN {c \in Conn : conn[c] # "new"} ELSE {}
    /\ UNCHANGED <<up, conn, inbox, pluClients, procVars, colour, signalled>>

(* Mutant: the colour is set and never taken back.                           *)
Watched_NeverReset(c) ==
    /\ up /\ c \in event
    /\ event' = event \ {c}
    /\ colour' = IF c \in Open /\ outbox > 0 THEN [colour EXCEPT ![c] = "green"] ELSE colour
    /\ UNCHANGED <<up, conn, inbox, pluClients, procVars, outbox, signalled>>

(* The callback reads the directory and tells the browser.                   *)
Watched(c) ==
    /\ up /\ c \in event
    /\ event' = event \ {c}
    /\ colour' = IF c \in Open
                 THEN [colour EXCEPT ![c] = IF outbox > 0 THEN "green" ELSE ""]
                 ELSE colour
    /\ UNCHANGED <<up, conn, inbox, pluClients, procVars, outbox, signalled>>

Restart ==
    /\ ~up
    /\ up' = TRUE
    /\ UNCHANGED <<conn, inbox, pluClients, procVars, fileVars, signalled>>

Next ==
    \/ \E c \in Conn :
         \/ Connect(c) \/ Close(c) \/ HandleKill(c) \/ SpawnFails(c) \/ Watched(c)
         \/ \E button \in Message : Press(c, button)
         \/ \E p \in Proc : HandleStart(c, p)
    \/ \E p \in Proc : ChildExit(p)
    \/ FilesChange \/ Restart

Spec == Init /\ [][Next]_vars

-------------------------------------------------------------------------------
Children(c) == {p \in Proc : state[p] = "running" /\ owner[p] = c}

(* Every child in a list is a different one, runs, and belongs to that       *)
(* connection: killWorkers() signals no process that has ended (which would  *)
(* end the server) and none of another browser, although exit events take    *)
(* the wrong child off the list.                                             *)
ListedRunning ==
    \A c \in Conn : \A i \in 1 .. Len(chillens[c]) :
        /\ chillens[c][i] \in Children(c)
        /\ \A j \in 1 .. Len(chillens[c]) : chillens[c][i] = chillens[c][j] => i = j

(* As long as no child of a connection was signalled, its list holds all the *)
(* children that run, so that Cancel reaches some child if there is one.     *)
TrackedUntilCancelled ==
    \A c \in Open :
        (\A p \in signalled : owner[p] # c)
          => Children(c) = {chillens[c][i] : i \in 1 .. Len(chillens[c])}

(* The Outbox button shows whether there are files in the outbox: a browser  *)
(* for which no callback is pending shows the present state, unless nothing  *)
(* has changed since it connected.                                           *)
ColourCurrent ==
    \A c \in Open \ event :
        colour[c] \in {"unset", IF outbox > 0 THEN "green" ELSE ""}
===============================================================================
