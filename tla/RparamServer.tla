---------------------------- MODULE RparamServer ----------------------------
(***************************************************************************)
(* The RPARAM server (rparam/rparam_server.c with rparam/param/serialize.c)*)
(* over the shell tunnel.  The CSP task answers one request at a time: a   *)
(* SET applies its items in turn; a GET of a whole table is answered in    *)
(* fragments, with a pause of 5 ms after each in which the worker of the   *)
(* tunnel runs and writes the table; a GET of listed rows is answered at   *)
(* once.                                                                   *)
(*                                                                         *)
(* The CSP task has a higher priority than the worker: between two pauses  *)
(* of it nothing else happens.  Rows have their real sizes; of table 1 the *)
(* rows that ShellTunnel has are read, of the others no values are kept.   *)
(***************************************************************************)
EXTENDS ShellTunnel, FiniteSetsExt

CONSTANTS
    Rows,        \* the tables: of each the rows in order, with name and bytes
    MaxPayload,  \* RPARAM_MAX_FRAGMENT_PAYLOAD (180)
    MaxItems,    \* bound: the items of a SET
    Lists        \* bound: the sets of rows of table 1 that are asked for

Shell == 1
List == -1

ASSUME RparamAssumption ==
    /\ Shell \in DOMAIN Rows /\ DOMAIN Rows \subseteq Nat
    /\ \A t \in DOMAIN Rows : Rows[t] \in Seq([name : STRING, size : Nat \ {0}])
    /\ MaxPayload \in Nat \ {0}
    /\ MaxItems \in Nat

VARIABLES
    serving,  \* the request in hand: "none", "set", or "get" of a whole table
    items,    \* items of the SET that were applied
    asked,    \* the table of the last GET, or List
    pkts, p,  \* pkts_needed, and the fragments that were sent
    pos,      \* param_pos: rows that were serialised
    reply,    \* the fragments of the answer
    idle      \* history: no command was in hand when the request came

server == <<serving, items, asked, pkts, p, pos, reply, idle>>
allVars == <<vars, server>>

-----------------------------------------------------------------------------

ServerInit ==
    /\ Init
    /\ serving = "none" /\ items = 0 /\ asked = List
    /\ pkts = 0 /\ p = 0 /\ pos = 0
    /\ reply = <<>> /\ idle = FALSE

\* The bytes of rows i .. j of table t.
Bytes(t, i, j) == MapThenSumSet(LAMBDA k : Rows[t][k].size, i .. j)

\* gs_param_serialize_full_table: the rows that go before the one that does
\* not fit into what is left of the fragment.
Serialized(t, from) ==
    Max({j \in from .. Len(Rows[t]) : Bytes(t, from + 1, j) <= MaxPayload})

\* The fragments that the bytes of the table need.
Packets(t) == Max({1, (Bytes(t, 1, Len(Rows[t])) + MaxPayload - 1) \div MaxPayload})

\* The fragments are counted in bytes and filled with whole rows, which may
\* take more of them: cut[k] rows are in the first k fragments.  The tables of
\* exp_rparam_table.c are such that the last fragment takes the last row.
ASSUME TablesFit ==
    \A t \in DOMAIN Rows :
        \E cut \in [0 .. Packets(t) -> 0 .. Len(Rows[t])] :
            /\ cut[0] = 0
            /\ \A k \in 1 .. Packets(t) :
                  /\ cut[k] = Serialized(t, cut[k - 1])
                  /\ cut[k] = Len(Rows[t]) <=> k = Packets(t)

\* What says that a result is there, and of what size it is, is in the first
\* fragment of table 1.
ASSUME ResultFirst ==
    \A k \in DOMAIN Rows[Shell] :
        Rows[Shell][k].name \in {"status", "pages", "outlen"} => k <= Serialized(Shell, 0)

\* The values of rows of table 1.
Names(t, i, j) == {Rows[t][k].name : k \in i .. j}
Values(t, names) ==
    IF t = Shell THEN [r \in names \cap DOMAIN table |-> table[r]] ELSE <<>>

InHandNow == queue # <<>> \/ pc # "receive"

-----------------------------------------------------------------------------
(* handle_get                                                              *)

\* A whole table is asked for: the dry run counts its bytes.
GetTable(t) ==
    /\ serving = "none"
    /\ serving' = "get" /\ asked' = t
    /\ pkts' = Packets(t)
    /\ p' = 0 /\ pos' = 0 /\ reply' = <<>>
    /\ idle' = ~InHandNow
    /\ UNCHANGED <<vars, items>>

\* The fragment with the rows up to the last one.  The last of several has its
\* number in `seq' and in `total'.  `of' is history: the command whose output
\* is in g_out, 0 if a stop request may have reset its rows.
Numbered(last) ==
    [seq   |-> IF pkts = 1 THEN 0 ELSE IF p = pkts - 1 THEN pkts ELSE p,
     total |-> IF pkts = 1 THEN 0 ELSE pkts,
     rows  |-> <<pos + 1, last>>,
     seen  |-> Values(asked, Names(asked, pos + 1, last)),
     of    |-> IF hit THEN 0 ELSE buf.cmd]

\* The request is done with.
Answered == serving' = "none" /\ pkts' = 0 /\ p' = 0 /\ pos' = 0

\* Mutant: a row that does not fit is left out.
FragmentSkips ==
    /\ serving = "get"
    /\ LET last == Serialized(asked, pos) IN
       /\ reply' = Append(reply, Numbered(last))
       /\ IF p + 1 < pkts THEN p' = p + 1 /\ pos' = last + 1 /\ UNCHANGED <<serving, pkts>>
          ELSE Answered
    /\ UNCHANGED <<vars, items, asked, idle>>

\* The next fragment; a pause follows.
Fragment ==
    /\ serving = "get"
    /\ LET last == Serialized(asked, pos) IN
       /\ reply' = Append(reply, Numbered(last))
       /\ IF p + 1 < pkts THEN p' = p + 1 /\ pos' = last /\ UNCHANGED <<serving, pkts>>
          ELSE Answered
    /\ UNCHANGED <<vars, items, asked, idle>>

\* No buffer, or the fragment is not sent: the answer ends there.
Break ==
    /\ serving = "get"
    /\ Answered
    /\ UNCHANGED <<vars, items, asked, reply, idle>>

\* Rows of table 1 are asked for by their addresses: one fragment, or an error
\* when they do not fit.
GetList(names) ==
    LET wanted == {k \in DOMAIN Rows[Shell] : Rows[Shell][k].name \in names} IN
    /\ serving = "none"
    /\ asked' = List /\ idle' = ~InHandNow
    /\ reply' = IF MapThenSumSet(LAMBDA k : Rows[Shell][k].size, wanted) > MaxPayload THEN <<>>
                ELSE << [seq |-> 0, total |-> 0, rows |-> <<1, 0>>,
                         seen |-> Values(Shell, names),
                         of |-> IF hit THEN 0 ELSE buf.cmd] >>
    /\ UNCHANGED <<vars, serving, items, pkts, p, pos>>

-----------------------------------------------------------------------------
(* handle_set, with the callback of table 1                                *)

\* No answer is kept of an earlier request.
SetBegin ==
    /\ serving = "none"
    /\ serving' = "set" /\ items' = 0
    /\ asked' = List /\ reply' = <<>> /\ idle' = FALSE
    /\ UNCHANGED <<vars, pkts, p, pos>>

SetItem ==
    /\ serving = "set" /\ items < MaxItems
    /\ items' = items + 1
    /\ Master
    /\ UNCHANGED <<serving, asked, pkts, p, pos, reply, idle>>

\* The items are done, or one of them names no row: what was applied stays.
SetEnd ==
    /\ serving = "set"
    /\ serving' = "none" /\ items' = 0
    /\ UNCHANGED <<vars, asked, pkts, p, pos, reply, idle>>

-----------------------------------------------------------------------------

\* The worker runs when the CSP task waits for a packet or in a pause.
WorkerRuns ==
    /\ serving # "set"
    /\ Worker
    /\ UNCHANGED server

ServerNext ==
    \/ (\E t \in DOMAIN Rows : GetTable(t))
    \/ Fragment \/ Break
    \/ (\E names \in Lists : GetList(names))
    \/ SetBegin \/ SetItem \/ SetEnd
    \/ WorkerRuns

ServerSpec == ServerInit /\ [][ServerNext]_allVars

-----------------------------------------------------------------------------
(* Properties                                                              *)

\* A master puts the fragments together by their numbers: it has all when the
\* one has come that is numbered `total'.
Complete == reply # <<>> /\ reply[Len(reply)].seq = reply[Len(reply)].total

\* The answer to a GET of a whole table holds its rows once and in order, and
\* a master that sees it complete has all of them (rparam_server.c:78-133 with
\* serialize.c:125-133: the number of fragments is counted in bytes, and they
\* are filled with rows).
RowsOnce ==
    LET first(i) == reply[i].rows[1]
        last(i) == reply[i].rows[2]
    IN asked # List /\ reply # <<>> =>
        /\ \A i \in DOMAIN reply : first(i) = IF i = 1 THEN 1 ELSE last(i - 1) + 1
        /\ Complete <=> last(Len(reply)) = Len(Rows[asked])

\* The row r of the fragments that were put together.
Has(r) == \E i \in DOMAIN reply : r \in DOMAIN reply[i].seen
Got(r) == LET i == CHOOSE i \in DOMAIN reply : r \in DOMAIN reply[i].seen
          IN reply[i].seen[r]

Newer(char, c) == char = NUL \/ char[1] > c

\* An answer that says DONE, where no stop request has raced the command, is
\* one result: its pages, outlen and every character of its out are of one
\* command, as they are in the table (DoneIsWhole).  Only when a command was
\* already in hand may characters of `out', which goes in the second fragment,
\* be of that newer command, as far as the worker has copied them; they are
\* never older than the rest (rparam_server.c:132 against sh_handler.c:104 and
\* :206-216).  Which page it is, the row `page' does not always tell: a SET of
\* it between the worker's writes of `page' and of `out' is overwritten in one
\* of the two only.
AnswerIsOneResult ==
    LET c == reply[1].of IN
    Complete /\ (\A r \in {"status", "pages", "outlen", "out"} : Has(r)) =>
        (Got("status") = "DONE" /\ c # 0 =>
            \E i \in 0 .. MaxPage, k \in 0 .. PageSize :
               LET result == Mixed(c, i, k, Got("pages"), Got("outlen")) IN
               \A j \in 1 .. PageSize :
                  Got("out")[j] = result[j] \/ (~idle /\ Newer(Got("out")[j], c)))
=============================================================================
