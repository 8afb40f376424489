--------------------------- MODULE UpdateService ---------------------------
(***************************************************************************)
(* What the client promises a control panel that waits for an answer       *)
(* before it sends the next update command: only the last command is       *)
(* worked on, a folder changes only while the update of that folder is     *)
(* being installed, and then either holds nothing useful or the new build, *)
(* success is answered only for a folder that holds the new build, unless  *)
(* its archive has a flaw that goes unnoticed, and failure only for one    *)
(* that was not touched.  An installation may be given up without an       *)
(* answer.  Nothing is said of threads, queues, files and checks.          *)
(***************************************************************************)
EXTENDS Integers, Sequences

CONSTANTS MaxCmd,   \* update commands are numbered 1..MaxCmd
          Folders,  \* the folders that can be updated
          Target,   \* the folder a command updates
          None      \* no command, no build

VARIABLES sent,     \* the number of the last command sent
          replies,  \* the answers
          folder,   \* the build that each folder holds, or None
          busy,     \* the command that is being installed, or None
          flawed    \* the commands whose archive has a flaw

serviceVars == <<sent, replies, folder, busy, flawed>>

Init == /\ sent = 0
        /\ replies = <<>>
        /\ folder = [f \in Folders |-> 0]
        /\ busy = None
        /\ flawed = {}

(* The last command is still to be answered. *)
Open == sent > 0 /\ \A i \in DOMAIN replies : replies[i].cmd # sent

Send == /\ busy = None /\ sent < MaxCmd
        /\ sent' = sent + 1
        /\ UNCHANGED <<replies, folder, busy, flawed>>

Fail == /\ busy = None /\ Open
        /\ replies' = Append(replies, [cmd |-> sent, ok |-> FALSE])
        /\ UNCHANGED <<sent, folder, busy, flawed>>

Flaw == /\ Open
        /\ flawed' = flawed \cup {sent}
        /\ UNCHANGED <<sent, replies, folder, busy>>

Begin == /\ busy = None /\ Open
         /\ busy' = sent
         /\ folder' = [folder EXCEPT ![Target[sent]] = None]
         /\ UNCHANGED <<sent, replies, flawed>>

Write == /\ busy # None
         /\ \E b \in {None, busy} : folder' = [folder EXCEPT ![Target[busy]] = b]
         /\ UNCHANGED <<sent, replies, busy, flawed>>

Succeed == /\ busy # None
           /\ folder[Target[busy]] = busy \/ busy \in flawed
           /\ replies' = Append(replies, [cmd |-> busy, ok |-> TRUE])
           /\ busy' = None
           /\ UNCHANGED <<sent, folder, flawed>>

GiveUp == /\ busy # None
          /\ busy' = None
          /\ UNCHANGED <<sent, replies, folder, flawed>>

Next == Send \/ Flaw \/ Fail \/ Begin \/ Write \/ Succeed \/ GiveUp

Spec == Init /\ [][Next]_serviceVars
=============================================================================
