------------------------------ MODULE AckedFeed ------------------------------
(***************************************************************************)
(* What the live path promises, with no process, queue, batch or retry in  *)
(* it: the events of each source are written in stream order, what is      *)
(* written stays written, and the server is told of a transaction only     *)
(* after all of it has been written.                                       *)
(***************************************************************************)
EXTENDS WalStream

CONSTANTS Sources, Streams

VARIABLES
    wal,      \* each source's stream
    written,  \* positions whose events every trusted sink has written
    acked     \* the position the server holds as confirmed

vars == <<wal, written, acked>>

\* No decodable event is missing before a written one.
GapFree(w, done) ==
    \A i \in 1..Len(w) : i \in done => \A j \in 1..(i - 1) : w[j].ok => j \in done

\* All of every transaction that committed at or before c is written.
Covers(w, done, c) ==
    \A k \in 1..Len(w) : w[k].op = "commit" /\ w[k].lsn <= c =>
        \A i \in 1..k : w[i].ok => i \in done

Init ==
    /\ wal \in [Sources -> Streams]
    /\ \A s \in Sources : GapFree(wal[s], written[s])
    /\ acked = [s \in Sources |-> 0]

Write ==
    /\ \A s \in Sources :
         written[s] \subseteq written'[s] /\ GapFree(wal[s], written'[s])
    /\ UNCHANGED <<wal, acked>>

Ack ==
    /\ \A s \in Sources :
         acked'[s] # acked[s] => Covers(wal[s], written[s], acked'[s])
    /\ UNCHANGED <<wal, written>>

Next == Write \/ Ack

Spec == Init /\ [][Next]_vars
==============================================================================
