------------------------------ MODULE WalStream ------------------------------
(***************************************************************************)
(* What the code relies on of PostgreSQL's logical decoding (proto_version *)
(* 1, pgoutput): the sequence of messages one replication slot delivers.   *)
(*                                                                         *)
(* A message that yields a ChangeEvent is [lsn, op, ok]: the wal_start of  *)
(* its XLogData frame, whether it is the transaction's Commit, and whether *)
(* it decodes (the parser throws on one that does not).  Begin, Relation,  *)
(* Type and Origin yield no event and are left out; a Truncate of several  *)
(* relations is several messages with one lsn.                             *)
(***************************************************************************)
EXTENDS Integers, Sequences

Message == [lsn : Nat \ {0}, op : {"change", "commit"}, ok : BOOLEAN]

\* Transactions arrive whole and in commit order, and every record of a
\* transaction precedes its commit record in the WAL.  Nothing orders the
\* changes of two transactions that ran concurrently: a transaction that
\* commits later may carry changes with lower positions than the commit
\* that was delivered before it.
IsStream(w) ==
    /\ w \in Seq(Message)
    /\ \A j, k \in 1..Len(w) : j < k /\ w[k].op = "commit" => w[j].lsn < w[k].lsn
    /\ w # <<>> => w[Len(w)].op = "commit"

\* The first position the server sends for a slot confirmed up to c: it
\* resends a transaction unless c is at or past its commit position.
ResumesAt(w, c, p) ==
    /\ p \in 1..(Len(w) + 1)
    /\ p > 1 => w[p - 1].op = "commit" /\ w[p - 1].lsn <= c
    /\ \A k \in p..Len(w) : w[k].op = "commit" => w[k].lsn > c
==============================================================================
