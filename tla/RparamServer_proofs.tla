------------------------ MODULE RparamServer_proofs ------------------------
(***************************************************************************)
(* Proofs about the shell tunnel and about the RPARAM server over it.      *)
(*                                                                         *)
(* The tunnel, for every page size, buffer size and number of commands:    *)
(* the types of its variables; then Whole, the inductive strengthening of  *)
(* DoneIsWhole and BusyIsShown, which says how far the worker has          *)
(* published a result while it has not said DONE, of the row `out' to the  *)
(* character; last the refinement of the abstract service.  Nothing of the *)
(* server is used.                                                         *)
(*                                                                         *)
(* The server, for any tables that meet the layout assumptions of          *)
(* RparamServer and any size of a fragment: it keeps the promises of the   *)
(* tunnel; an answer holds the rows of its table once and in order; and an *)
(* answer that says DONE is of one result.                                 *)
(***************************************************************************)
EXTENDS RparamServer, SequenceTheorems, FiniteSetTheorems, TLAPS

(***************************************************************************)
(* The shell tunnel: types                                                 *)
(***************************************************************************)

\* The number of pages fits its uint8_t row (calc_pages, sh_handler.c:112).
LEMMA PagesType ==
    ASSUME NEW len \in Nat
    PROVE  CalcPages(len) \in 0 .. 255
<1> DEFINE count == (len + PageSize - 1) \div PageSize
<1>1. PageSize \in Nat /\ PageSize > 0  BY ShellAssumption
<1>2. len + PageSize - 1 \in Nat  BY <1>1
<1>3. count \in Int /\ count >= 0  BY <1>1, <1>2
<1> QED  BY <1>3 DEF CalcPages

\* A page is characters of the output (load_page, sh_handler.c:119).
LEMMA LoadPageType ==
    ASSUME buf \in Output, NEW i \in Nat
    PROVE  LoadPage(i) \in Shown
<1> DEFINE n == i * PageSize
           copy == IF buf.len - n < PageSize - 1 THEN buf.len - n ELSE PageSize - 1
<1>1. PageSize \in Nat /\ PageSize >= 2 /\ MaxOut \in Nat /\ MaxCmds \in Nat
  BY ShellAssumption
<1>2. n \in Nat  BY <1>1
<1>3. buf.len \in 0 .. MaxOut /\ buf.cmd \in Cmd  BY <1>1 DEF Output
<1>4. NUL \in Char  BY <1>1 DEF NUL, Char, Cmd
<1>5. LoadPage(i) = [j \in 1 .. PageSize |-> IF j <= copy THEN <<buf.cmd, n + j>> ELSE NUL]
  BY DEF LoadPage
<1> HIDE DEF n
<1>6. ASSUME NEW j \in 1 .. PageSize, j <= copy PROVE <<buf.cmd, n + j>> \in Char
  <2>1. n + j \in 0 .. MaxOut  BY <1>1, <1>2, <1>3, <1>6
  <2> QED  BY <1>3, <2>1 DEF Char
<1> HIDE DEF copy
<1> QED  BY <1>4, <1>5, <1>6 DEF Shown

LEMMA BlankType == Blank \in Shown
<1>1. NUL \in Char  BY ShellAssumption DEF NUL, Char, Cmd
<1> QED  BY <1>1 DEF Blank, Shown

\* The worker copies one character of a page.
LEMMA CopyRows ==
    ASSUME table \in Table, copied \in 0 .. PageSize - 1, NEW at, NEW next,
           NEW new \in Shown, Copy(at, next, new)
    PROVE  /\ pc = at /\ table' \in Table
           /\ table'.status = table.status /\ table'.pages = table.pages
           /\ table'.outlen = table.outlen
           /\ table'.out[copied + 1] = new[copied + 1]
           /\ \A j \in 1 .. PageSize : j # copied + 1 => table'.out[j] = table.out[j]
           /\ \/ copied + 1 = PageSize /\ copied' = 0 /\ pc' = next
              \/ copied + 1 < PageSize /\ copied' = copied + 1 /\ pc' = pc
<1>1. PageSize \in Nat /\ PageSize >= 2  BY ShellAssumption
<1>2. copied + 1 \in 1 .. PageSize  BY <1>1
<1>3. table.out \in Shown  BY DEF Table
<1> DEFINE out == [table.out EXCEPT ![copied + 1] = new[copied + 1]]
<1>4. new[copied + 1] \in Char  BY <1>2 DEF Shown
<1>5. out \in Shown  BY <1>2, <1>3, <1>4 DEF Shown
<1>6. out[copied + 1] = new[copied + 1]  BY <1>2, <1>3 DEF Shown
<1>7. \A j \in 1 .. PageSize : j # copied + 1 => out[j] = table.out[j]
  BY <1>3 DEF Shown
<1>8. table' = [table EXCEPT !.out = out]  BY DEF Copy
<1> HIDE DEF out
<1>9. /\ table'.out = out /\ table' \in Table /\ table'.status = table.status
      /\ table'.pages = table.pages /\ table'.outlen = table.outlen
  BY <1>5, <1>8 DEF Table
<1>10. \/ copied + 1 = PageSize /\ copied' = 0 /\ pc' = next
       \/ copied + 1 < PageSize /\ copied' = copied + 1 /\ pc' = pc
  BY <1>1, <1>2 DEF Copy
<1>11. pc = at  BY DEF Copy
<1> QED  BY <1>6, <1>7, <1>9, <1>10, <1>11

LEMMA TypeInit == Init => TypeOK
<1> SUFFICES ASSUME Init PROVE TypeOK
  OBVIOUS
<1>1. MaxCmds \in Nat /\ MaxOut \in Nat /\ MaxPage \in Nat /\ PageSize \in Nat
      /\ PageSize >= 2
  BY ShellAssumption
<1>2. Blank \in Shown  BY BlankType
<1>3. table \in Table  BY <1>1, <1>2 DEF Init, Table, Status
<1>4. buf \in Output  BY <1>1 DEF Init, Output, NoOutput, Cmd
<1>5. 0 \in Cmd  BY <1>1 DEF Cmd
<1>6. queue \in {<<>>} \cup {<<c>> : c \in Cmd}  BY Zenon DEF Init
<1>7. pc \in Pc  BY DEF Init, Pc
<1>8. copied \in 0 .. PageSize - 1  BY <1>1 DEF Init
<1> QED  BY <1>3, <1>4, <1>5, <1>6, <1>7, <1>8, Zenon DEF Init, TypeOK

LEMMA TypeStep == TypeOK /\ [Next]_vars => TypeOK'
<1> SUFFICES ASSUME TypeOK, [Next]_vars PROVE TypeOK'
  OBVIOUS
<1>0. MaxCmds \in Nat /\ MaxOut \in Nat /\ MaxPage \in Nat /\ PageSize \in Nat
      /\ PageSize >= 2
  BY ShellAssumption
<1>a. Blank \in Shown  BY BlankType
<1>b. table \in Table /\ buf \in Output /\ cmd \in Cmd /\ accepted \in Cmd
      /\ copied \in 0 .. PageSize - 1
  BY DEF TypeOK
<1>c. buf.len \in 0 .. MaxOut /\ buf.len \in Nat /\ buf.wrote \in 0 .. MaxOut + 1
  BY <1>0, <1>b DEF Output
<1>d. CalcPages(buf.len) \in 0 .. 255  BY <1>c, PagesType
<1>1. ASSUME NEW i \in 0 .. MaxPage, SetPage(i) PROVE TypeOK'
  <2>1. LoadPage(i) \in Shown  BY <1>0, <1>b, LoadPageType
  <2>2. table' \in Table
    <3>1. PICK o \in Shown : table' = [table EXCEPT !.page = i, !.out = o]
      BY <1>1, <1>a, <2>1, Zenon DEF SetPage
    <3> QED  BY <1>b, <3>1 DEF Table
  <2> QED  BY <1>1, <2>2 DEF SetPage, TypeOK
<1>2. CASE SetStop
  <2>1. 0 \in 0 .. 255 /\ 0 \in 0 .. MaxOut /\ "IDLE" \in Status
    BY <1>0 DEF Status
  <2>2. table.page \in 0 .. MaxPage  BY <1>b DEF Table
  <2>3. table' = [status |-> "IDLE", pages |-> 0, outlen |-> 0,
                  page |-> table.page, out |-> Blank]
    BY <1>2, <1>b DEF SetStop, Table
  <2>4. table' \in Table  BY <1>a, <2>1, <2>2, <2>3 DEF Table
  <2> QED  BY <1>2, <2>4 DEF SetStop, TypeOK
<1>3. CASE SetCommand
  <2>1. accepted' \in Cmd  BY <1>0, <1>3, <1>b DEF SetCommand, Cmd
  <2> QED  BY <1>3, <2>1 DEF SetCommand, TypeOK
<1>4. CASE Receive
  <2>1. PICK c \in Cmd : queue = <<c>>  BY <1>4 DEF Receive, TypeOK
  <2>2. cmd' \in Cmd  BY <1>4, <2>1 DEF Receive
  <2> QED  BY <1>4, <2>2 DEF Receive, TypeOK, Pc
<1>5. CASE Check  BY <1>5 DEF Check, TypeOK, Pc
<1>6. CASE Begin
  <2>1. table' \in Table  BY <1>6, <1>b DEF Begin, Write, Table, Status
  <2> QED  BY <1>6, <2>1 DEF Begin, Write, TypeOK, Pc
<1>7. CASE ResetOutput
  <2>1. buf' \in Output  BY <1>0, <1>7, <1>b DEF ResetOutput, NoOutput, Output
  <2> QED  BY <1>7, <2>1 DEF ResetOutput, TypeOK, Pc
<1>8. CASE WriteChar
  <2>1. PICK n \in 0 .. MaxOut :
           buf' = [buf EXCEPT !.wrote = buf.wrote + 1, !.len = n]
    <3>1. (IF buf.len < MaxOut THEN buf.len + 1 ELSE buf.len) \in 0 .. MaxOut
      BY <1>0, <1>c
    <3> QED  BY <1>8, <3>1, Zenon DEF WriteChar
  <2>2. buf.wrote + 1 \in 0 .. MaxOut + 1  BY <1>0, <1>8, <1>c DEF WriteChar
  <2>3. buf' \in Output  BY <1>b, <2>1, <2>2 DEF Output
  <2> QED  BY <1>8, <2>3 DEF WriteChar, TypeOK
<1>9. CASE Return
  <2>1. PICK c \in BOOLEAN : buf' = [buf EXCEPT !.cut = c]
    <3>1. (buf.len >= MaxOut) \in BOOLEAN  OBVIOUS
    <3> QED  BY <1>9, <3>1, Zenon DEF Return
  <2>2. buf' \in Output  BY <1>b, <2>1 DEF Output
  <2> QED  BY <1>9, <2>2 DEF Return, TypeOK, Pc
<1>10. CASE Flag  BY <1>10 DEF Flag, TypeOK, Pc
<1>c1. ASSUME NEW at, NEW next \in Pc, NEW new \in Shown, Copy(at, next, new)
       PROVE  table' \in Table /\ pc' \in Pc /\ copied' \in 0 .. PageSize - 1
  <2>1. pc \in Pc  BY DEF TypeOK
  <2>2. table' \in Table  BY <1>b, <1>c1, CopyRows
  <2>3. \/ copied + 1 = PageSize /\ copied' = 0 /\ pc' = next
        \/ copied + 1 < PageSize /\ copied' = copied + 1 /\ pc' = pc
    BY <1>b, <1>c1, CopyRows
  <2>4. copied' \in 0 .. PageSize - 1  BY <1>0, <1>b, <2>3
  <2> QED  BY <2>1, <2>2, <2>3, <2>4
<1>11. CASE StopRows
  <2>1. CASE Copy("stopOut", "receive", Blank)
    <3>1. table' \in Table /\ pc' \in Pc /\ copied' \in 0 .. PageSize - 1
      BY <1>a, <1>c1, <2>1 DEF Pc
    <3> QED  BY <1>11, <2>1, <3>1 DEF StopRows, Copy, TypeOK
  <2>2. CASE ~Copy("stopOut", "receive", Blank)
    <3>1. table' \in Table
      BY <1>0, <1>11, <1>b, <2>2 DEF StopRows, Write, Table, Status
    <3>2. pc' \in Pc  BY <1>11, <2>2 DEF StopRows, Write, Pc
    <3> QED  BY <1>11, <2>2, <3>1, <3>2 DEF StopRows, Write, TypeOK
  <2> QED  BY <2>1, <2>2
<1>12. CASE Publish
  <2>1. CASE Copy("out", "done", LoadPage(0))
    <3>1. LoadPage(0) \in Shown  BY <1>b, LoadPageType
    <3>2. table' \in Table /\ pc' \in Pc /\ copied' \in 0 .. PageSize - 1
      BY <1>c1, <2>1, <3>1 DEF Pc
    <3> QED  BY <1>12, <2>1, <3>2 DEF Publish, Copy, TypeOK
  <2>2. CASE ~Copy("out", "done", LoadPage(0))
    <3>1. table' \in Table
      BY <1>0, <1>12, <1>b, <1>c, <1>d, <2>2 DEF Publish, Write, Table, Status
    <3>2. pc' \in Pc  BY <1>12, <2>2 DEF Publish, Write, Pc
    <3> QED  BY <1>12, <2>2, <3>1, <3>2 DEF Publish, Write, TypeOK
  <2> QED  BY <2>1, <2>2
<1>13. CASE UNCHANGED vars  BY <1>13 DEF vars, TypeOK
<1> QED  BY <1>1, <1>2, <1>3, <1>4, <1>5, <1>6, <1>7, <1>8, <1>9, <1>10,
            <1>11, <1>12, <1>13 DEF Next, Master, Worker

\* The variables have their types: the output never outgrows its buffer
\* (sh_handler.c:57) and the queue has one place (sh_handler.c:375).
THEOREM ShellTyping == Spec => []TypeOK
<1> QED  BY TypeInit, TypeStep, PTL DEF Spec

(***************************************************************************)
(* What the worker publishes                                               *)
(***************************************************************************)

\* The first n places of a row `out' are those of a mixture of two pages.
ShownUpTo(out, n, c, pages, outlen) ==
    \E i \in 0 .. MaxPage, k \in 0 .. PageSize :
       \A j \in 1 .. n : out[j] = Mixed(c, i, k, pages, outlen)[j]

\* A mixture by its places.
LEMMA MixedPlaces ==
    ASSUME NEW c, NEW i, NEW k, NEW pages, NEW outlen
    PROVE  /\ DOMAIN Mixed(c, i, k, pages, outlen) = 1 .. PageSize
           /\ Mixed(c, i, k, pages, outlen)
                = [j \in 1 .. PageSize |-> Mixed(c, i, k, pages, outlen)[j]]
           /\ \A j \in 1 .. PageSize :
                 Mixed(c, i, k, pages, outlen)[j]
                   = PageOf(c, IF j <= k THEN i ELSE 0, pages, outlen)[j]
BY DEF Mixed

\* Before anything is copied anything may be there.
LEMMA NoneShown ==
    ASSUME NEW out, NEW c, NEW pages, NEW outlen
    PROVE  ShownUpTo(out, 0, c, pages, outlen)
<1>1. 0 \in 0 .. MaxPage /\ 0 \in 0 .. PageSize  BY ShellAssumption
<1>2. \A j \in 1 .. 0 : out[j] = Mixed(c, 0, 0, pages, outlen)[j]  OBVIOUS
<1> QED  BY <1>1, <1>2 DEF ShownUpTo

\* The next character of page 0 is copied: what was shown stays before it.
LEMMA NextShown ==
    ASSUME NEW out, NEW new, NEW n \in 0 .. PageSize - 1, NEW c, NEW pages, NEW outlen,
           ShownUpTo(out, n, c, pages, outlen),
           \A j \in 1 .. n : new[j] = out[j],
           new[n + 1] = PageOf(c, 0, pages, outlen)[n + 1]
    PROVE  ShownUpTo(new, n + 1, c, pages, outlen)
<1>0. PageSize \in Nat  BY ShellAssumption
<1>1. PICK i \in 0 .. MaxPage, k \in 0 .. PageSize :
         \A j \in 1 .. n : out[j] = Mixed(c, i, k, pages, outlen)[j]
  BY DEF ShownUpTo
<1> DEFINE q == IF k <= n THEN k ELSE n
<1>2. q \in 0 .. PageSize /\ ~(n + 1 <= q) /\ \A j \in 1 .. n : j <= q <=> j <= k
  BY <1>0
<1> HIDE DEF q
<1>3. ASSUME NEW j \in 1 .. n + 1 PROVE new[j] = Mixed(c, i, q, pages, outlen)[j]
  <2>1. j \in 1 .. PageSize  BY <1>0
  <2>2. CASE j = n + 1
    <3>1. Mixed(c, i, q, pages, outlen)[j] = PageOf(c, 0, pages, outlen)[j]
      BY <1>2, <2>1, <2>2, MixedPlaces
    <3> QED  BY <2>2, <3>1
  <2>3. CASE j # n + 1
    <3>1. j \in 1 .. n  BY <2>3
    <3>2. Mixed(c, i, q, pages, outlen)[j] = Mixed(c, i, k, pages, outlen)[j]
      BY <1>2, <2>1, <3>1, MixedPlaces
    <3> QED  BY <1>1, <3>1, <3>2
  <2> QED  BY <2>2, <2>3
<1> QED  BY <1>2, <1>3 DEF ShownUpTo

\* A page that is selected is shown as it is.
LEMMA PageIsShown ==
    ASSUME NEW i \in 0 .. MaxPage, NEW n \in 0 .. PageSize, NEW c, NEW pages, NEW outlen
    PROVE  ShownUpTo(PageOf(c, i, pages, outlen), n, c, pages, outlen)
<1>1. PageSize \in Nat /\ PageSize \in 0 .. PageSize  BY ShellAssumption
<1>2. ASSUME NEW j \in 1 .. n
      PROVE  PageOf(c, i, pages, outlen)[j] = Mixed(c, i, PageSize, pages, outlen)[j]
  <2>1. j \in 1 .. PageSize /\ j <= PageSize  BY <1>1
  <2> QED  BY <2>1, MixedPlaces
<1> QED  BY <1>1, <1>2 DEF ShownUpTo

\* A row of which all places are shown is a mixture.
LEMMA AllShown ==
    ASSUME NEW out \in Shown, NEW c, NEW pages, NEW outlen,
           ShownUpTo(out, PageSize, c, pages, outlen)
    PROVE  \E i \in 0 .. MaxPage, k \in 0 .. PageSize : out = Mixed(c, i, k, pages, outlen)
<1>1. PICK i \in 0 .. MaxPage, k \in 0 .. PageSize :
         \A j \in 1 .. PageSize : out[j] = Mixed(c, i, k, pages, outlen)[j]
  BY DEF ShownUpTo
<1>2. out = [j \in 1 .. PageSize |-> out[j]]  BY DEF Shown
<1>3. Mixed(c, i, k, pages, outlen)
        = [j \in 1 .. PageSize |-> Mixed(c, i, k, pages, outlen)[j]]
  BY MixedPlaces
<1>4. out = Mixed(c, i, k, pages, outlen)  BY <1>1, <1>2, <1>3, Zenon
<1> QED  BY <1>4

\* There is a page 0, be it empty.
LEMMA AtLeastOnePage ==
    ASSUME NEW len \in Nat
    PROVE  CalcPages(len) \in Nat /\ 0 < CalcPages(len)
<1>1. PageSize \in Nat /\ PageSize > 0  BY ShellAssumption
<1> DEFINE q == (len + PageSize - 1) \div PageSize
<1>2. CASE len = 0  BY <1>2 DEF CalcPages
<1>3. CASE len # 0
  <2>1. q \in Nat /\ q >= 1
    <3>1. len + PageSize - 1 >= PageSize /\ len + PageSize - 1 \in Nat  BY <1>1, <1>3
    <3>2. PICK a \in Nat : a = len + PageSize - 1  BY <3>1
    <3>3. a \div PageSize \in Nat /\ a \div PageSize >= 1  BY <1>1, <3>1, <3>2
    <3> QED  BY <3>2, <3>3
  <2> QED  BY <1>3, <2>1 DEF CalcPages
<1> QED  BY <1>2, <1>3

\* A page that is loaded is one that PageOf describes.
LEMMA LoadedPage ==
    ASSUME buf \in Output, NEW i \in Nat, i < CalcPages(buf.len)
    PROVE  LoadPage(i) = PageOf(buf.cmd, i, CalcPages(buf.len), buf.len)
<1> DEFINE n == i * PageSize
           copy == IF buf.len - n < PageSize - 1 THEN buf.len - n ELSE PageSize - 1
           pages == CalcPages(buf.len)
<1>1. PageSize \in Nat /\ PageSize >= 2 /\ buf.len \in Nat
  BY ShellAssumption DEF Output
<1>2. n \in Nat  BY <1>1
<1>3. LoadPage(i) = [j \in 1 .. PageSize |-> IF j <= copy THEN <<buf.cmd, n + j>> ELSE NUL]
  BY DEF LoadPage
<1>4. PageOf(buf.cmd, i, pages, buf.len)
        = [j \in 1 .. PageSize |->
             IF i < pages /\ j < PageSize /\ n + j <= buf.len THEN <<buf.cmd, n + j>> ELSE NUL]
  BY DEF PageOf
<1>5. i < pages  OBVIOUS
<1> HIDE DEF n, pages
<1>6. \A j \in 1 .. PageSize :
         j <= copy <=> (i < pages /\ j < PageSize /\ n + j <= buf.len)
  BY <1>1, <1>2, <1>5
<1> HIDE DEF copy
<1>7. LoadPage(i) = PageOf(buf.cmd, i, pages, buf.len)  BY <1>3, <1>4, <1>6, Zenon
<1> QED  BY <1>7 DEF pages

\* The first n places of the row `out' are of the result that the other rows
\* describe.
OutShown(n) == ShownUpTo(table.out, n, buf.cmd, table.pages, table.outlen)

Announced ==
    table.status = "DONE" /\ ~hit =>
        /\ pc \in {"receive", "check", "begin"}
        /\ table.pages = CalcPages(buf.len) /\ table.outlen = buf.len
        /\ buf.wrote > MaxOut => buf.cut
        /\ OutShown(PageSize)

\* Between RUNNING and DONE, no stop request having come, each row that has
\* been written describes the output, and so much of `out' as was copied;
\* behind a stop request the status is never DONE.
Whole ==
    /\ BusyIsShown
    /\ Announced
    /\ pc \notin {"out", "stopOut"} => copied = 0
    /\ pc \in {"run", "flag", "pages", "outlen", "page", "out", "done"} =>
          buf.len = IF buf.wrote > MaxOut THEN MaxOut ELSE buf.wrote
    /\ pc \in {"flag", "pages", "outlen", "page", "out", "done"} =>
          (buf.wrote > MaxOut => buf.cut)
    /\ pc \in {"outlen", "page", "out", "done"} /\ ~hit =>
          table.pages = CalcPages(buf.len)
    /\ pc \in {"page", "out", "done"} /\ ~hit => table.outlen = buf.len
    /\ pc = "out" /\ ~hit => OutShown(copied)
    /\ pc = "done" /\ ~hit => OutShown(PageSize)
    /\ pc \in {"stopped", "stopPages", "stopLen", "stopOut"} =>
          table.status # "DONE"

LEMMA WholeInit == Init => Whole
BY DEF Init, Whole, BusyIsShown, Announced

LEMMA WholeIsDone == TypeOK /\ Whole => DoneIsWhole
<1> SUFFICES ASSUME TypeOK, Whole, table.status = "DONE", ~hit
             PROVE  /\ pc \in {"receive", "check", "begin"}
                    /\ table.pages = CalcPages(buf.len)
                    /\ table.outlen = buf.len
                    /\ buf.wrote > MaxOut => buf.cut
                    /\ \E i \in 0 .. MaxPage, k \in 0 .. PageSize :
                          table.out = Mixed(buf.cmd, i, k, table.pages, table.outlen)
  BY DEF DoneIsWhole
<1>1. Announced  BY DEF Whole
<1>2. OutShown(PageSize)  BY <1>1 DEF Announced
<1>3. table.out \in Shown  BY DEF TypeOK, Table
<1>4. \E i \in 0 .. MaxPage, k \in 0 .. PageSize :
         table.out = Mixed(buf.cmd, i, k, table.pages, table.outlen)
  BY <1>2, <1>3, AllShown DEF OutShown
<1> QED  BY <1>1, <1>4 DEF Announced

LEMMA WholeStep == TypeOK /\ Whole /\ [Next]_vars => Whole'
<1> SUFFICES ASSUME TypeOK, Whole, [Next]_vars PROVE Whole'
  OBVIOUS
<1>0. MaxOut \in Nat /\ MaxPage \in Nat /\ 0 \in 0 .. MaxPage
      /\ PageSize \in Nat /\ PageSize >= 2
  BY ShellAssumption
<1>a. table \in Table /\ buf \in Output /\ hit \in BOOLEAN /\ copied \in 0 .. PageSize - 1
  BY DEF TypeOK
<1>b. buf.len \in Nat /\ buf.wrote \in Nat  BY <1>0, <1>a DEF Output
<1>s. ASSUME UNCHANGED buf, table'.out = table.out, table'.pages = table.pages,
             table'.outlen = table.outlen, NEW n
      PROVE  OutShown(n)' <=> OutShown(n)
  BY <1>s DEF OutShown
\* Steps that leave the table and the output alone, and what is done with them.
<1>t. ASSUME UNCHANGED <<table, buf, hit, copied>>,
             \/ pc' = pc
             \/ pc = "receive" /\ pc' = "check"
             \/ pc = "check" /\ pc' \in {"receive", "begin"}
             \/ pc = "flag" /\ pc' \in {"stopped", "pages"}
      PROVE  Whole'
  <2>1. OutShown(PageSize)' <=> OutShown(PageSize)  BY <1>s, <1>t
  <2>2. OutShown(copied)' <=> OutShown(copied)  BY <1>t DEF OutShown
  <2>3. pc = "flag" => table.status # "DONE"  BY DEF Whole, BusyIsShown
  <2> QED  BY <1>t, <2>1, <2>2, <2>3 DEF Whole, BusyIsShown, Announced
<1>1. ASSUME NEW i \in 0 .. MaxPage, SetPage(i) PROVE Whole'
  <2>1. /\ table'.status = table.status /\ table'.pages = table.pages
        /\ table'.outlen = table.outlen
        /\ table'.out = IF i >= table.pages THEN Blank ELSE LoadPage(i)
    BY <1>1, <1>a DEF SetPage, Table
  <2>2. UNCHANGED <<buf, pc, hit, copied>>  BY <1>1 DEF SetPage
  <2>3. ASSUME table.pages = CalcPages(buf.len), table.outlen = buf.len
        PROVE  OutShown(PageSize)' /\ OutShown(copied)'
    <3>1. i \in Nat /\ table.pages \in Nat  BY <1>0, <1>b, <2>3, AtLeastOnePage
    <3>2. table'.out = PageOf(buf.cmd, i, table.pages, table.outlen)
      <4>1. CASE i >= table.pages
        <5>1. ~(i < table.pages)  BY <3>1, <4>1
        <5> QED  BY <2>1, <4>1, <5>1 DEF PageOf, Blank
      <4>2. CASE ~(i >= table.pages)
        <5>1. i < CalcPages(buf.len)  BY <2>3, <3>1, <4>2
        <5> QED  BY <1>a, <2>1, <2>3, <3>1, <4>2, <5>1, LoadedPage
      <4> QED  BY <4>1, <4>2
    <3>3. PageSize \in 0 .. PageSize /\ copied \in 0 .. PageSize  BY <1>0, <1>a
    <3> QED  BY <2>1, <2>2, <3>2, <3>3, PageIsShown DEF OutShown
  <2> QED  BY <2>1, <2>2, <2>3 DEF Whole, BusyIsShown, Announced
<1>2. CASE SetStop
  <2>1. table'.status = "IDLE"  BY <1>2, <1>a DEF SetStop, Table
  <2>2. UNCHANGED <<buf, pc, copied>> /\ hit' = TRUE  BY <1>2 DEF SetStop
  <2> QED  BY <2>1, <2>2 DEF Whole, BusyIsShown, Announced
<1>3. CASE SetCommand  BY <1>3, <1>t DEF SetCommand
<1>4. CASE Receive  BY <1>4, <1>t DEF Receive
<1>5. CASE Check  BY <1>5, <1>t DEF Check
<1>6. CASE Begin
  <2>1. table'.status = "RUNNING"  BY <1>6, <1>a DEF Begin, Write, Table
  <2>2. pc = "begin" /\ pc' = "reset" /\ hit' = FALSE /\ UNCHANGED copied
    BY <1>6 DEF Begin, Write
  <2> QED  BY <2>1, <2>2 DEF Whole, BusyIsShown, Announced
<1>7. CASE ResetOutput
  <2>1. UNCHANGED <<table, hit, copied>> /\ pc = "reset" /\ pc' = "run"
        /\ buf'.wrote = 0 /\ buf'.len = 0
    BY <1>7 DEF ResetOutput, NoOutput
  <2>2. table.status # "DONE"  BY <2>1 DEF Whole, BusyIsShown
  <2> QED  BY <1>0, <2>1, <2>2 DEF Whole, BusyIsShown, Announced
<1>8. CASE WriteChar
  <2>1. UNCHANGED <<table, hit, pc, copied>> /\ pc = "run" /\ buf.wrote <= MaxOut
    BY <1>8 DEF WriteChar
  <2>2. table.status # "DONE"  BY <2>1 DEF Whole, BusyIsShown
  <2>3. buf'.wrote = buf.wrote + 1
        /\ buf'.len = IF buf.len < MaxOut THEN buf.len + 1 ELSE buf.len
    BY <1>8, <1>a DEF WriteChar, Output
  <2>4. buf'.len = IF buf'.wrote > MaxOut THEN MaxOut ELSE buf'.wrote
    <3>1. buf.len = buf.wrote  BY <1>0, <1>b, <2>1 DEF Whole
    <3> QED  BY <1>0, <1>b, <2>1, <2>3, <3>1
  <2> QED  BY <2>1, <2>2, <2>4 DEF Whole, BusyIsShown, Announced
<1>9. CASE Return
  <2>1. UNCHANGED <<table, hit, copied>> /\ pc = "run" /\ pc' = "flag"
    BY <1>9 DEF Return
  <2>2. table.status # "DONE"  BY <2>1 DEF Whole, BusyIsShown
  <2>3. buf'.wrote = buf.wrote /\ buf'.len = buf.len
        /\ (buf.len >= MaxOut => buf'.cut)
    BY <1>9, <1>a DEF Return, Output
  <2>4. buf.wrote > MaxOut => buf.len >= MaxOut
    BY <1>0, <2>1 DEF Whole
  <2> QED  BY <2>1, <2>2, <2>3, <2>4 DEF Whole, BusyIsShown, Announced
<1>10. CASE Flag  BY <1>10, <1>t DEF Flag
<1>11. CASE StopRows
  <2>0. UNCHANGED <<buf, hit>>  BY <1>11 DEF StopRows, Write, Copy
  <2>1. CASE Copy("stopOut", "receive", Blank)
    <3>1. /\ pc = "stopOut" /\ table'.status = table.status
          /\ \/ copied' = 0 /\ pc' = "receive"
             \/ pc' = pc
      BY <1>a, <2>1, BlankType, CopyRows
    <3>2. table'.status # "DONE"  BY <3>1 DEF Whole
    <3> QED  BY <2>0, <3>1, <3>2 DEF Whole, BusyIsShown, Announced
  <2>2. CASE ~Copy("stopOut", "receive", Blank)
    <3>1. /\ pc' \in {"stopPages", "stopLen", "stopOut"} /\ UNCHANGED copied
          /\ pc \in {"stopped", "stopPages", "stopLen"}
      BY <1>11, <2>2 DEF StopRows, Write
    <3>2. table'.status \in {"STOPPED", table.status}
      BY <1>11, <1>a, <2>2 DEF StopRows, Write, Table
    <3>3. table'.status # "DONE"  BY <3>1, <3>2 DEF Whole
    <3> QED  BY <2>0, <3>1, <3>3 DEF Whole, BusyIsShown, Announced
  <2> QED  BY <2>1, <2>2
<1>12. CASE Publish
  <2>0. UNCHANGED <<buf, hit>>  BY <1>12 DEF Publish, Write, Copy
  <2>1. CASE Write("pages", "outlen", "pages", CalcPages(buf.len))
    <3>1. /\ pc = "pages" /\ pc' = "outlen" /\ table'.status = table.status
          /\ table'.pages = CalcPages(buf.len) /\ UNCHANGED copied
      BY <2>1, <1>a DEF Write, Table
    <3> QED  BY <2>0, <3>1 DEF Whole, BusyIsShown, Announced, CalcPages
  <2>2. CASE Write("outlen", "page", "outlen", buf.len)
    <3>1. /\ pc = "outlen" /\ pc' = "page" /\ table'.status = table.status
          /\ table'.pages = table.pages /\ table'.outlen = buf.len /\ UNCHANGED copied
      BY <2>2, <1>a DEF Write, Table
    <3> QED  BY <2>0, <3>1 DEF Whole, BusyIsShown, Announced, CalcPages
  <2>3. CASE Write("page", "out", "page", 0)
    <3>1. /\ pc = "page" /\ pc' = "out" /\ table'.status = table.status
          /\ table'.pages = table.pages /\ table'.outlen = table.outlen
          /\ UNCHANGED copied
      BY <2>3, <1>a DEF Write, Table
    <3>2. copied = 0  BY <3>1 DEF Whole
    <3>3. OutShown(copied)'  BY <3>1, <3>2, NoneShown DEF OutShown
    <3> QED  BY <2>0, <3>1, <3>3 DEF Whole, BusyIsShown, Announced, CalcPages
  <2>4. CASE Copy("out", "done", LoadPage(0))
    <3>0. LoadPage(0) \in Shown  BY <1>a, LoadPageType
    <3>1. /\ pc = "out" /\ table'.status = table.status
          /\ table'.pages = table.pages /\ table'.outlen = table.outlen
          /\ table'.out[copied + 1] = LoadPage(0)[copied + 1]
          /\ \A j \in 1 .. PageSize : j # copied + 1 => table'.out[j] = table.out[j]
          /\ \/ copied + 1 = PageSize /\ copied' = 0 /\ pc' = "done"
             \/ copied + 1 < PageSize /\ copied' = copied + 1 /\ pc' = pc
      BY <1>a, <2>4, <3>0, CopyRows
    <3>2. ASSUME ~hit
          PROVE  ShownUpTo(table'.out, copied + 1, buf.cmd, table.pages, table.outlen)
      <4>1. table.pages = CalcPages(buf.len) /\ table.outlen = buf.len /\ OutShown(copied)
        BY <3>1, <3>2 DEF Whole
      <4>2. LoadPage(0) = PageOf(buf.cmd, 0, table.pages, table.outlen)
        BY <1>a, <1>b, <4>1, AtLeastOnePage, LoadedPage
      <4>3. \A j \in 1 .. copied : table'.out[j] = table.out[j]  BY <1>0, <1>a, <3>1
      <4>4. ShownUpTo(table.out, copied, buf.cmd, table.pages, table.outlen)
        BY <4>1 DEF OutShown
      <4>5. table'.out[copied + 1] = PageOf(buf.cmd, 0, table.pages, table.outlen)[copied + 1]
        BY <3>1, <4>2
      <4> QED  BY <1>a, <4>3, <4>4, <4>5, NextShown
    <3>3. CASE copied + 1 = PageSize /\ copied' = 0 /\ pc' = "done"
      <4>1. ~hit => OutShown(PageSize)'  BY <2>0, <3>1, <3>2, <3>3 DEF OutShown
      <4> QED  BY <2>0, <3>1, <3>3, <4>1 DEF Whole, BusyIsShown, Announced, CalcPages
    <3>4. CASE copied + 1 < PageSize /\ copied' = copied + 1 /\ pc' = pc
      <4>1. ~hit => OutShown(copied)'  BY <2>0, <3>1, <3>2, <3>4 DEF OutShown
      <4> QED  BY <2>0, <3>1, <3>4, <4>1 DEF Whole, BusyIsShown, Announced, CalcPages
    <3> QED  BY <3>1, <3>3, <3>4
  <2>5. CASE Write("done", "receive", "status", "DONE")
    <3>1. /\ pc = "done" /\ pc' = "receive" /\ table'.status = "DONE"
          /\ table'.pages = table.pages /\ table'.outlen = table.outlen
          /\ table'.out = table.out /\ UNCHANGED copied
      BY <2>5, <1>a DEF Write, Table
    <3>2. OutShown(PageSize)' <=> OutShown(PageSize)  BY <1>s, <2>0, <3>1
    <3> QED
      BY <2>0, <3>1, <3>2 DEF Whole, BusyIsShown, Announced, CalcPages
  <2> QED  BY <1>12, <2>1, <2>2, <2>3, <2>4, <2>5 DEF Publish
<1>13. CASE UNCHANGED vars  BY <1>13, <1>t DEF vars
<1> QED  BY <1>1, <1>2, <1>3, <1>4, <1>5, <1>6, <1>7, <1>8, <1>9, <1>10,
            <1>11, <1>12, <1>13 DEF Next, Master, Worker

\* A status DONE that no stop request has raced is true of the whole table, to
\* the character of the row `out', whatever the master sets while the worker
\* publishes (do_exec, sh_handler.c:104, :166-222, against the callback,
\* :324-380): no character of an older output is ever shown with a newer DONE.
THEOREM DoneTableIsWhole == Spec => []DoneIsWhole
<1> QED
  BY WholeIsDone, TypeInit, TypeStep, WholeInit, WholeStep, PTL DEF Spec

\* While the worker uses the output buffer the status reads RUNNING, or IDLE
\* behind a stop request (sh_handler.c:170, :349, :361).
THEOREM BusyWorkerIsShown == Spec => []BusyIsShown
<1>1. Whole => BusyIsShown  BY DEF Whole
<1> QED  BY <1>1, TypeInit, TypeStep, WholeInit, WholeStep, PTL DEF Spec

(***************************************************************************)
(* The refinement                                                          *)
(***************************************************************************)

\* The accepted commands that have not ended.
Todo == (IF Busy THEN <<cmd>> ELSE <<>>) \o queue

LEMMA ServiceInit == Init => Service!Init
BY DEF Init, Service!Init, Busy

\* When the worker is done with a command, the oldest one leaves.
LEMMA OldestLeaves ==
    ASSUME cmd \in Cmd, queue = <<>> \/ \E c \in Cmd : queue = <<c>>,
           Busy, ~Busy', UNCHANGED <<cmd, queue>>
    PROVE  Todo # <<>> /\ Todo' = Tail(Todo)
<1>1. Todo = <<cmd>> \o queue /\ Todo' = <<>> \o queue  BY DEF Todo
<1>2. CASE queue = <<>>  BY <1>1, <1>2
<1>3. ASSUME NEW c \in Cmd, queue = <<c>> PROVE Todo # <<>> /\ Todo' = Tail(Todo)
  <2>1. <<cmd>> \in Seq(Cmd) /\ <<c>> \in Seq(Cmd)  OBVIOUS
  <2>2. Append(<<cmd>>, c) = <<cmd>> \o <<c>>  BY <2>1, AppendIsConcat
  <2>3. Tail(<<cmd>>) = <<>>  BY <2>1
  <2>4. Tail(Append(<<cmd>>, c)) = Append(<<>>, c)
    BY <2>1, <2>3, HeadTailAppend
  <2>5. Append(<<>>, c) = <<c>>  OBVIOUS
  <2>6. <<>> \o <<c>> = <<c>>  BY <2>1
  <2>7. Todo = Append(<<cmd>>, c) /\ Todo' = <<c>>
    BY <1>1, <1>3, <2>2, <2>6, Zenon
  <2>8. Append(<<cmd>>, c) # <<>>  BY <2>1, AppendProperties
  <2> QED  BY <2>4, <2>5, <2>7, <2>8, Zenon
<1> QED  BY <1>2, <1>3

LEMMA ServiceStep ==
    TypeOK /\ TypeOK' /\ [Next]_vars => [Service!Next]_(Service!serviceVars)
<1> SUFFICES ASSUME TypeOK, TypeOK', [Next]_vars
             PROVE  [Service!Next]_(Service!serviceVars)
  OBVIOUS
<1> USE DEF Service!serviceVars
<1>a. table \in Table  BY DEF TypeOK
<1>b. queue = <<>> \/ \E c \in Cmd : queue = <<c>>  BY DEF TypeOK
<1>c. accepted \in Nat /\ cmd \in Cmd  BY ShellAssumption DEF TypeOK, Cmd
\* A step that touches none of the four mapped variables stutters.
<1>s. ASSUME UNCHANGED <<cmd, queue, accepted, stopReq>>, Busy' = Busy,
             table'.status = table.status
      PROVE  UNCHANGED Service!serviceVars
  BY <1>s
<1>1. ASSUME NEW i \in 0 .. MaxPage, SetPage(i)
      PROVE  UNCHANGED Service!serviceVars
  <2>1. table'.status = table.status  BY <1>1, <1>a DEF SetPage, Table
  <2>2. UNCHANGED <<cmd, queue, accepted, stopReq, pc>>  BY <1>1 DEF SetPage
  <2> QED  BY <1>s, <2>1, <2>2 DEF Busy
<1>2. CASE SetStop
  <2>1. table'.status = "IDLE"  BY <1>2, <1>a DEF SetStop, Table
  <2>2. UNCHANGED <<cmd, queue, accepted, pc>> /\ stopReq' = TRUE
    BY <1>2 DEF SetStop
  <2>3. Service!Stop  BY <2>1, <2>2 DEF Service!Stop, Busy
  <2> QED  BY <2>3 DEF Service!Next
<1>3. CASE SetCommand
  <2>1. /\ queue = <<>> /\ queue' = <<accepted'>> /\ accepted' = accepted + 1
        /\ table.status # "RUNNING" /\ UNCHANGED <<table, stopReq, pc, cmd>>
    BY <1>3 DEF SetCommand
  <2>2. CASE Busy
    <3>0. Busy'  BY <2>1, <2>2 DEF Busy
    <3>1. Todo = <<cmd>> \o <<>> /\ Todo' = <<cmd>> \o <<accepted'>>
      BY <2>1, <2>2, <3>0 DEF Todo
    <3>2. Len(Todo) < 2 /\ Todo' = Append(Todo, accepted')  BY <1>c, <2>1, <3>1
    <3>3. Service!Accept  BY <2>1, <3>2 DEF Service!Accept, Todo, Busy
    <3> QED  BY <3>3 DEF Service!Next
  <2>3. CASE ~Busy
    <3>1. Todo = <<>> /\ Todo' = <<accepted'>>
      BY <1>c, <2>1, <2>3 DEF Todo, Busy
    <3>2. Len(Todo) < 2 /\ Todo' = Append(Todo, accepted')  BY <3>1
    <3>3. Service!Accept  BY <2>1, <3>2 DEF Service!Accept, Todo, Busy
    <3> QED  BY <3>3 DEF Service!Next
  <2> QED  BY <2>2, <2>3
<1>4. CASE Receive
  <2>1. PICK c \in Cmd : queue = <<c>>  BY <1>4, <1>b DEF Receive
  <2>2. cmd' = c /\ queue' = <<>> /\ ~Busy /\ Busy'
        /\ UNCHANGED <<table, accepted, stopReq>>
    BY <1>4, <2>1 DEF Receive, Busy
  <2>3. Todo = <<c>> /\ Todo' = <<c>>  BY <2>1, <2>2 DEF Todo
  <2>4. Todo' = Todo /\ table' = table  BY <2>2, <2>3
  <2> QED  BY <2>2, <2>4, Zenon DEF Todo
<1>5. CASE Check
  <2>1. /\ UNCHANGED <<table, queue, cmd, accepted>> /\ Busy
        /\ stopReq' = FALSE /\ (Busy' <=> ~stopReq)
    BY <1>5 DEF Check, Busy
  <2>2. CASE ~stopReq
    BY <1>s, <2>1, <2>2 DEF TypeOK
  <2>3. CASE stopReq
    <3>1. Todo # <<>> /\ Todo' = Tail(Todo)
      BY <1>b, <1>c, <2>1, <2>3, OldestLeaves
    <3>2. Service!Kill  BY <2>1, <2>3, <3>1 DEF Service!Kill, Todo
    <3> QED  BY <3>2 DEF Service!Next
  <2> QED  BY <2>2, <2>3
<1>6. CASE Begin
  <2>1. table'.status = "RUNNING" /\ Busy /\ Busy'
        /\ UNCHANGED <<queue, cmd, accepted, stopReq>>
    BY <1>6, <1>a DEF Begin, Write, Table, Busy
  <2>2. Todo # <<>> /\ Todo' = Todo  BY <1>b, <2>1 DEF Todo
  <2>3. Service!Begin  BY <2>1, <2>2 DEF Service!Begin, Todo
  <2> QED  BY <2>3 DEF Service!Next
<1>7. CASE ResetOutput  BY <1>7, <1>s DEF ResetOutput, Busy
<1>8. CASE WriteChar  BY <1>8, <1>s DEF WriteChar, Busy
<1>9. CASE Return  BY <1>9, <1>s DEF Return, Busy
<1>10. CASE Flag
  <2>1. /\ UNCHANGED <<table, queue, cmd, accepted>> /\ Busy
        /\ stopReq' = FALSE /\ (Busy' <=> ~stopReq)
    BY <1>10 DEF Flag, Busy
  <2>2. CASE ~stopReq
    BY <1>s, <2>1, <2>2 DEF TypeOK
  <2>3. CASE stopReq
    <3>1. Todo # <<>> /\ Todo' = Tail(Todo)
      BY <1>b, <1>c, <2>1, <2>3, OldestLeaves
    <3>2. Service!Kill  BY <2>1, <2>3, <3>1 DEF Service!Kill, Todo
    <3> QED  BY <3>2 DEF Service!Next
  <2> QED  BY <2>2, <2>3
\* A character that is copied is in no row but `out'.
<1>c1. ASSUME NEW at, NEW next, NEW new \in Shown, Copy(at, next, new)
       PROVE  table'.status = table.status
  BY <1>a, <1>c1, CopyRows DEF TypeOK
<1>11. CASE StopRows
  <2>1. UNCHANGED <<queue, cmd, accepted, stopReq>> /\ ~Busy /\ ~Busy'
    BY <1>11 DEF StopRows, Write, Copy, Busy
  <2>2. table'.status = "STOPPED" \/ table'.status = table.status
    <3>1. CASE Copy("stopOut", "receive", Blank)  BY <1>c1, <3>1, BlankType
    <3>2. CASE ~Copy("stopOut", "receive", Blank)
      BY <1>11, <1>a, <3>2 DEF StopRows, Write, Table
    <3> QED  BY <3>1, <3>2
  <2>3. CASE table'.status = "STOPPED"
    <3>1. Service!ReportStop  BY <2>1, <2>3 DEF Service!ReportStop
    <3> QED  BY <3>1 DEF Service!Next
  <2>4. CASE table'.status = table.status  BY <1>s, <2>1, <2>4
  <2> QED  BY <2>2, <2>3, <2>4
<1>12. CASE Publish
  <2>1. UNCHANGED <<queue, cmd, accepted, stopReq>> /\ Busy
    BY <1>12 DEF Publish, Write, Copy, Busy
  <2>2. CASE Write("done", "receive", "status", "DONE")
    <3>1. table'.status = "DONE" /\ ~Busy'
      BY <2>2, <1>a DEF Write, Table, Busy
    <3>2. Todo # <<>> /\ Todo' = Tail(Todo)
      BY <1>b, <1>c, <2>1, <3>1, OldestLeaves
    <3>3. Service!Finish  BY <2>1, <3>1, <3>2 DEF Service!Finish, Todo
    <3> QED  BY <3>3 DEF Service!Next
  <2>3. CASE ~Write("done", "receive", "status", "DONE")
    <3>1. CASE Copy("out", "done", LoadPage(0))
      <4>1. LoadPage(0) \in Shown  BY LoadPageType DEF TypeOK
      <4>2. table'.status = table.status  BY <1>c1, <3>1, <4>1
      <4>3. Busy'  BY <3>1 DEF Copy, Busy
      <4> QED  BY <1>s, <2>1, <4>2, <4>3
    <3>2. CASE ~Copy("out", "done", LoadPage(0))
      <4>1. PICK f \in {"pages", "outlen", "page"} :
               /\ table' = [table EXCEPT ![f] = table'[f]]
               /\ pc' \in {"outlen", "page", "out"}
        BY <1>12, <1>a, <2>3, <3>2 DEF Publish, Write, Table
      <4>2. table'.status = table.status  BY <4>1, <1>a DEF Table
      <4>3. Busy'  BY <4>1 DEF Busy
      <4> QED  BY <1>s, <2>1, <4>2, <4>3
    <3> QED  BY <3>1, <3>2
  <2> QED  BY <2>2, <2>3
<1>13. CASE UNCHANGED vars  BY <1>13, <1>s DEF vars, Busy
<1> QED  BY <1>1, <1>2, <1>3, <1>4, <1>5, <1>6, <1>7, <1>8, <1>9, <1>10,
            <1>11, <1>12, <1>13 DEF Next, Master, Worker

\* The tunnel implements the abstract service: commands end once each, in
\* order, and a stop request cuts short at most one of them.
THEOREM TunnelImplementsService == Spec => RefinesService
<1> QED
  BY ServiceInit, ServiceStep, TypeInit, TypeStep, PTL
     DEF Spec, RefinesService, Service!Spec

-----------------------------------------------------------------------------
(* Largest numbers, and the rows of a fragment                             *)

\* A set of numbers up to n has a largest element.
LEMMA Largest ==
    ASSUME NEW n \in Nat, NEW S, S \subseteq 0 .. n, S # {}
    PROVE  Max(S) \in S /\ \A y \in S : Max(S) >= y
<1> DEFINE R == OpToRel(<, Nat)
           D == {n - x : x \in S}
<1>1. IsWellFoundedOn(R, Nat) BY NatLessThanWellFounded
<1>2. R = {q \in Nat \X Nat : q[1] < q[2]} BY DEF OpToRel
<1>a. \A x \in S : x \in Nat /\ n - x \in Nat OBVIOUS
<1>3. D \subseteq Nat /\ D # {} BY <1>a, Zenon
<1> HIDE DEF R
<1>4. \A x, y \in Nat : <<x, y>> \in R <=> x < y BY <1>2
<1> HIDE DEF D
<1>5. \E x \in D : \A y \in D : ~(<<y, x>> \in R) BY <1>1, <1>3, WFMin
<1>6. PICK d \in D : \A y \in D : ~(<<y, d>> \in R) BY <1>5
<1>7. \A y \in D : ~(y < d) BY <1>3, <1>4, <1>6
<1>8. PICK m \in S : d = n - m BY DEF D
<1>9. \A y \in S : m >= y
  <2> TAKE y \in S
  <2>1. n - y \in D BY DEF D
  <2>2. ~(n - y < n - m) BY <1>7, <1>8, <2>1
  <2>3. m \in Nat /\ y \in Nat OBVIOUS
  <2> QED BY <2>2, <2>3
<1>10. \E x \in S : \A y \in S : x >= y BY <1>9
<1> QED BY <1>10, Zenon DEF Max

\* No rows have no bytes.
LEMMA NoBytes ==
    ASSUME NEW t, NEW i \in Nat
    PROVE  Bytes(t, i + 1, i) = 0
<1>1. (i + 1) .. i = {} OBVIOUS
<1> DEFINE f(k) == Rows[t][k].size
           ch(s) == CHOOSE x \in s : TRUE
           none == [s \in SUBSET {} |-> 0]
<1>2. \A s \in SUBSET {} : s = {} OBVIOUS
<1>3. none = [s \in SUBSET {} |-> IF s = {} THEN 0 ELSE f(ch(s)) + none[s \ {ch(s)}]]
  BY <1>2, Zenon
<1>4. MapThenSumSet(LAMBDA k : Rows[t][k].size, {}) = 0
  BY <1>3 DEF MapThenSumSet, MapThenFoldSet
<1> QED BY <1>1, <1>4 DEF Bytes

\* A fragment ends at a row of its table, not before its first.
LEMMA SerializedType ==
    ASSUME NEW t \in DOMAIN Rows, NEW from \in 0 .. Len(Rows[t])
    PROVE  Serialized(t, from) \in from .. Len(Rows[t])
<1> DEFINE S == {j \in from .. Len(Rows[t]) : Bytes(t, from + 1, j) <= MaxPayload}
<1>1. Len(Rows[t]) \in Nat /\ MaxPayload \in Nat BY RparamAssumption
<1>2. Bytes(t, from + 1, from) = 0 BY NoBytes
<1>3. from \in S BY <1>1, <1>2
<1>4. S \subseteq 0 .. Len(Rows[t]) BY <1>1
<1>5. Max(S) \in S BY <1>1, <1>3, <1>4, Largest
<1> QED BY <1>5 DEF Serialized

\* The bytes of rows are a number: the fold over them is a function of the sets
\* of rows, which exists up to each cardinality.
Chosen(s) == CHOOSE x \in s : TRUE
Summed(t, s, g) == IF s = {} THEN 0 ELSE Rows[t][Chosen(s)].size + g[s \ {Chosen(s)}]

LEMMA ChosenLeaves ==
    ASSUME NEW t \in DOMAIN Rows, NEW S, S \subseteq DOMAIN Rows[t], IsFiniteSet(S),
           NEW s \in SUBSET S, s # {}
    PROVE  /\ Rows[t][Chosen(s)].size \in Nat
           /\ s \ {Chosen(s)} \in SUBSET S
           /\ Cardinality(s) \in Nat /\ Cardinality(s \ {Chosen(s)}) = Cardinality(s) - 1
<1>1. Chosen(s) \in s BY Zenon DEF Chosen
<1> DEFINE Row == [name : STRING, size : Nat \ {0}]
<1>a. Rows[t] \in Seq(Row) /\ Chosen(s) \in DOMAIN Rows[t] BY <1>1, RparamAssumption
<1> HIDE DEF Row
<1>b. Rows[t][Chosen(s)] \in Row BY <1>a
<1>2. Rows[t][Chosen(s)].size \in Nat BY <1>b DEF Row
<1>3. IsFiniteSet(s) BY FS_Subset
<1>5. s \ {Chosen(s)} \in SUBSET S OBVIOUS
<1>6. Cardinality(s) \in Nat BY <1>3, FS_CardinalityType
<1>7. Cardinality(s \ {Chosen(s)}) = Cardinality(s) - 1 BY <1>1, <1>3, FS_RemoveElement
<1> QED BY <1>2, <1>5, <1>6, <1>7

LEMMA SumExists ==
    ASSUME NEW t \in DOMAIN Rows, NEW S, S \subseteq DOMAIN Rows[t], IsFiniteSet(S)
    PROVE  \E g : g = [s \in SUBSET S |-> Summed(t, s, g)]
<1> DEFINE K == {m \in 0 .. Cardinality(S) :
                    \E g \in [SUBSET S -> Nat] : \A s \in SUBSET S :
                        Cardinality(s) <= m => g[s] = Summed(t, s, g)}
<1>1. PICK N \in Nat : N = Cardinality(S) BY FS_CardinalityType
<1>2. \A s \in SUBSET S : Cardinality(s) \in Nat /\ Cardinality(s) <= N
                          /\ (Cardinality(s) = 0 <=> s = {})
  BY <1>1, FS_Subset, FS_CardinalityType, FS_EmptySet
<1>3. 0 \in K
  <2> DEFINE g == [s \in SUBSET S |-> 0]
  <2>1. g \in [SUBSET S -> Nat] OBVIOUS
  <2>2. ASSUME NEW s \in SUBSET S, Cardinality(s) <= 0 PROVE g[s] = Summed(t, s, g)
    <3>1. s = {} BY <1>2, <2>2
    <3> QED BY <3>1 DEF Summed
  <2>3. 0 \in 0 .. Cardinality(S) BY <1>1
  <2> HIDE DEF g
  <2> QED BY <2>1, <2>2, <2>3
<1>4. K \subseteq 0 .. N BY <1>1
<1> HIDE DEF K
<1>5. PICK m \in K : \A y \in K : m >= y BY <1>3, <1>4, Largest
<1>6. m \in Nat BY <1>4, <1>5
<1>7. PICK g \in [SUBSET S -> Nat] :
         \A s \in SUBSET S : Cardinality(s) <= m => g[s] = Summed(t, s, g)
  BY <1>5 DEF K
<1>8. CASE m = N
  <2>1. \A s \in SUBSET S : g[s] = Summed(t, s, g) BY <1>2, <1>7, <1>8
  <2> QED BY <1>7, <2>1, Zenon
<1>9. CASE m # N
  <2> DEFINE h == [s \in SUBSET S |-> IF Cardinality(s) <= m THEN g[s] ELSE Summed(t, s, g)]
  <2>1. \A s \in SUBSET S : g[s] \in Nat BY <1>7
  <2>2. ASSUME NEW s \in SUBSET S PROVE Summed(t, s, g) \in Nat
    <3>1. CASE s = {} BY <3>1 DEF Summed
    <3>2. CASE s # {}
      <4>1. Rows[t][Chosen(s)].size \in Nat /\ s \ {Chosen(s)} \in SUBSET S
        BY <3>2, ChosenLeaves
      <4>2. g[s \ {Chosen(s)}] \in Nat BY <2>1, <4>1
      <4>3. Summed(t, s, g) = Rows[t][Chosen(s)].size + g[s \ {Chosen(s)}] BY <3>2 DEF Summed
      <4> QED BY <4>1, <4>2, <4>3
    <3> QED BY <3>1, <3>2
  <2>3. h \in [SUBSET S -> Nat] BY <2>1, <2>2
  <2>4. ASSUME NEW s \in SUBSET S, Cardinality(s) <= m + 1 PROVE h[s] = Summed(t, s, h)
    <3>1. CASE s = {}
      <4>1. Cardinality(s) = 0 BY <1>2, <3>1
      <4>2. h[s] = g[s] /\ g[s] = Summed(t, s, g) BY <1>6, <1>7, <4>1
      <4> QED BY <3>1, <4>2 DEF Summed
    <3>2. CASE s # {}
      <4> DEFINE r == s \ {Chosen(s)}
      <4>1. r \in SUBSET S /\ Cardinality(r) = Cardinality(s) - 1 /\ Cardinality(s) \in Nat
        BY <3>2, ChosenLeaves
      <4>2. Cardinality(r) <= m BY <1>6, <2>4, <4>1
      <4>3. h[r] = g[r] BY <4>1, <4>2
      <4>4. Summed(t, s, h) = Summed(t, s, g) BY <4>3 DEF Summed
      <4>5. h[s] = Summed(t, s, g) BY <1>7
      <4> QED BY <4>4, <4>5
    <3> QED BY <3>1, <3>2
  <2> HIDE DEF h
  <2>5. m + 1 \in 0 .. Cardinality(S) BY <1>1, <1>4, <1>5, <1>6, <1>9
  <2>6. m + 1 \in K BY <2>3, <2>4, <2>5 DEF K
  <2> QED BY <1>5, <1>6, <2>6
<1> QED BY <1>8, <1>9

LEMMA SumType ==
    ASSUME NEW t \in DOMAIN Rows, NEW S, S \subseteq DOMAIN Rows[t], IsFiniteSet(S),
           NEW g, g = [s \in SUBSET S |-> Summed(t, s, g)]
    PROVE  g[S] \in Nat
<1> DEFINE K == {m \in 0 .. Cardinality(S) :
                    \A s \in SUBSET S : Cardinality(s) <= m => g[s] \in Nat}
<1>1. PICK N \in Nat : N = Cardinality(S) BY FS_CardinalityType
<1>2. \A s \in SUBSET S : Cardinality(s) \in Nat /\ (Cardinality(s) = 0 <=> s = {})
  BY FS_Subset, FS_CardinalityType, FS_EmptySet
<1>a. \A s \in SUBSET S : g[s] = Summed(t, s, g) OBVIOUS
<1>3. 0 \in K
  <2>1. ASSUME NEW s \in SUBSET S, Cardinality(s) <= 0 PROVE g[s] \in Nat
    <3>1. s = {} BY <1>2, <2>1
    <3> QED BY <1>a, <3>1 DEF Summed
  <2>2. 0 \in 0 .. Cardinality(S) BY <1>1
  <2> QED BY <2>1, <2>2
<1>4. K \subseteq 0 .. N BY <1>1
<1> HIDE DEF K
<1>5. PICK m \in K : \A y \in K : m >= y BY <1>3, <1>4, Largest
<1>6. m \in Nat BY <1>4, <1>5
<1>7. \A s \in SUBSET S : Cardinality(s) <= m => g[s] \in Nat BY <1>5 DEF K
<1>8. CASE m # N
  <2>1. ASSUME NEW s \in SUBSET S, Cardinality(s) <= m + 1 PROVE g[s] \in Nat
    <3>1. CASE s = {} BY <1>a, <3>1 DEF Summed
    <3>2. CASE s # {}
      <4> DEFINE r == s \ {Chosen(s)}
      <4>1. r \in SUBSET S /\ Cardinality(r) = Cardinality(s) - 1 /\ Cardinality(s) \in Nat
            /\ Rows[t][Chosen(s)].size \in Nat
        BY <3>2, ChosenLeaves
      <4>2. Cardinality(r) <= m BY <1>6, <2>1, <4>1
      <4>3. g[r] \in Nat BY <1>7, <4>1, <4>2
      <4>4. g[s] = Rows[t][Chosen(s)].size + g[r] BY <1>a, <3>2 DEF Summed
      <4> QED BY <4>1, <4>3, <4>4
    <3> QED BY <3>1, <3>2
  <2>2. m + 1 \in 0 .. Cardinality(S) BY <1>1, <1>4, <1>5, <1>6, <1>8
  <2>3. m + 1 \in K BY <2>1, <2>2 DEF K
  <2> QED BY <1>5, <1>6, <2>3
<1>9. CASE m = N
  <2>1. S \in SUBSET S /\ Cardinality(S) <= m BY <1>1, <1>9
  <2> QED BY <1>7, <2>1
<1> QED BY <1>8, <1>9

LEMMA BytesType ==
    ASSUME NEW t \in DOMAIN Rows, NEW i \in Nat \ {0}, NEW j \in 0 .. Len(Rows[t])
    PROVE  Bytes(t, i, j) \in Nat
<1> DEFINE S == i .. j
           Fold == CHOOSE g : g = [s \in SUBSET S |-> Summed(t, s, g)]
<1>1. Rows[t] \in Seq([name : STRING, size : Nat \ {0}]) BY RparamAssumption
<1>2. S \subseteq DOMAIN Rows[t] /\ j \in Int BY <1>1
<1>3. IsFiniteSet(S) BY <1>2, FS_Interval
<1>4. Bytes(t, i, j) = Fold[S]
  BY DEF Bytes, MapThenSumSet, MapThenFoldSet, Summed, Chosen
<1> HIDE DEF S
<1>5. Fold = [s \in SUBSET S |-> Summed(t, s, Fold)] BY <1>2, <1>3, SumExists
<1> HIDE DEF Fold
<1>6. Fold[S] \in Nat BY <1>2, <1>3, <1>5, SumType
<1> QED BY <1>4, <1>6 DEF S

\* A table needs at least one fragment.
LEMMA PacketsType ==
    ASSUME NEW t \in DOMAIN Rows
    PROVE  Packets(t) \in Nat \ {0}
<1>1. Len(Rows[t]) \in Nat /\ MaxPayload \in Nat \ {0} BY RparamAssumption
<1>2. PICK b \in Nat : b = Bytes(t, 1, Len(Rows[t])) + MaxPayload - 1
  <2>1. Bytes(t, 1, Len(Rows[t])) \in Nat BY <1>1, BytesType
  <2> QED BY <1>1, <2>1
<1>3. PICK q \in Nat : q = b \div MaxPayload BY <1>1
<1>4. {1, q} \subseteq 0 .. q + 1 OBVIOUS
<1>5. Max({1, q}) \in {1, q} /\ \A y \in {1, q} : Max({1, q}) >= y BY <1>4, Largest
<1>6. Packets(t) = Max({1, q}) BY <1>2, <1>3 DEF Packets
<1> QED BY <1>5, <1>6

-----------------------------------------------------------------------------
(* Types, and the steps of the server                                      *)

IsSequence(s) == \E S : s \in Seq(S)

LEMMA AppendToSequence ==
    ASSUME NEW s, IsSequence(s), NEW e
    PROVE  /\ IsSequence(Append(s, e)) /\ Append(s, e) # <<>>
           /\ Len(s) \in Nat /\ Len(Append(s, e)) = Len(s) + 1
           /\ DOMAIN s = 1 .. Len(s) /\ DOMAIN Append(s, e) = 1 .. Len(s) + 1
           /\ Append(s, e)[Len(s) + 1] = e
           /\ \A i \in 1 .. Len(s) : Append(s, e)[i] = s[i]
           /\ s = <<>> <=> Len(s) = 0
<1>1. PICK S : s \in Seq(S) BY DEF IsSequence
<1> DEFINE T == S \cup {e}
<1>2. s \in Seq(T) BY <1>1
<1>3. e \in T OBVIOUS
<1> HIDE DEF T
<1>4. Append(s, e) \in Seq(T) BY <1>2, <1>3
<1> QED BY <1>2, <1>3, <1>4, AppendProperties, EmptySeq DEF IsSequence

ServerTypes ==
    /\ serving \in {"none", "set", "get"}
    /\ serving = "get" => asked \in DOMAIN Rows
    /\ p \in Nat /\ IsSequence(reply)

LEMMA ServerTypesInit == ServerInit => ServerTypes
<1> SUFFICES ASSUME ServerInit PROVE ServerTypes OBVIOUS
<1>1. <<>> \in Seq({}) OBVIOUS
<1> QED BY <1>1 DEF ServerInit, ServerTypes, IsSequence

\* A step that leaves the answer alone.
Aside ==
    /\ UNCHANGED <<asked, reply, idle>>
    /\ serving' # "get" \/ UNCHANGED server

LEMMA ServerSteps ==
    ASSUME [ServerNext]_allVars
    PROVE  \/ \E t \in DOMAIN Rows : GetTable(t)
           \/ Fragment
           \/ \E names \in Lists : GetList(names)
           \/ SetBegin
           \/ Aside
<1>1. CASE Break BY <1>1 DEF Break, Answered, Aside
<1>3. CASE SetItem BY <1>3 DEF SetItem, Aside
<1>4. CASE SetEnd BY <1>4 DEF SetEnd, Aside
<1>5. CASE WorkerRuns BY <1>5 DEF WorkerRuns, Aside, server
<1>6. CASE UNCHANGED allVars BY <1>6 DEF allVars, Aside, server
<1> QED BY <1>1, <1>3, <1>4, <1>5, <1>6 DEF ServerNext

LEMMA ServerTypesStep == ServerTypes /\ [ServerNext]_allVars => ServerTypes'
<1> SUFFICES ASSUME ServerTypes, [ServerNext]_allVars PROVE ServerTypes' OBVIOUS
<1>a. <<>> \in Seq({}) OBVIOUS
<1>1. ASSUME NEW t \in DOMAIN Rows, GetTable(t) PROVE ServerTypes'
  BY <1>a, <1>1 DEF GetTable, ServerTypes, IsSequence
<1>2. CASE Fragment
  <2>1. PICK last : reply' = Append(reply, Numbered(last)) BY <1>2 DEF Fragment
  <2>2. IsSequence(reply') BY <2>1, AppendToSequence DEF ServerTypes
  <2>3. asked' = asked /\ serving = "get" /\ serving' \in {"none", "get"} /\ p' \in {0, p + 1}
    BY <1>2 DEF Fragment, Answered
  <2> QED BY <2>2, <2>3 DEF ServerTypes
<1>3. ASSUME NEW names \in Lists, GetList(names) PROVE ServerTypes'
  <2>1. PICK e : reply' = <<>> \/ reply' = <<e>> BY <1>3 DEF GetList
  <2>2. IsSequence(reply')
    <3>1. <<e>> \in Seq({e}) OBVIOUS
    <3> QED BY <1>a, <2>1, <3>1 DEF IsSequence
  <2>3. serving' = "none" /\ p' = p BY <1>3 DEF GetList
  <2> QED BY <2>2, <2>3 DEF ServerTypes
<1>4. CASE Break BY <1>4 DEF Break, Answered, ServerTypes
<1>5. CASE SetBegin BY <1>a, <1>5 DEF SetBegin, ServerTypes, IsSequence
<1>6. CASE SetItem BY <1>6 DEF SetItem, ServerTypes
<1>7. CASE SetEnd BY <1>7 DEF SetEnd, ServerTypes
<1>8. CASE WorkerRuns BY <1>8 DEF WorkerRuns, server, ServerTypes
<1>9. CASE UNCHANGED allVars BY <1>9 DEF allVars, server, ServerTypes
<1> QED BY <1>1, <1>2, <1>3, <1>4, <1>5, <1>6, <1>7, <1>8, <1>9 DEF ServerNext

-----------------------------------------------------------------------------
(* Every row once                                                          *)

\* The rows that are in the first fragments of a table.
Cuts(t, cut) ==
    /\ cut[0] = 0
    /\ \A k \in 1 .. Packets(t) :
          /\ cut[k] = Serialized(t, cut[k - 1])
          /\ cut[k] = Len(Rows[t]) <=> k = Packets(t)

\* The fragments of an answer follow each other.
Contiguous ==
    \A i \in DOMAIN reply :
        reply[i].rows[1] = IF i = 1 THEN 1 ELSE reply[i - 1].rows[2] + 1

\* The rows so far are those of as many fragments as the assumption counts, and
\* the last fragment ended where the next one begins.
Filling ==
    serving = "get" =>
        /\ pkts = Packets(asked) /\ p \in 0 .. pkts - 1
        /\ \E cut : Cuts(asked, cut) /\ pos = cut[p]
        /\ pos = IF reply = <<>> THEN 0 ELSE reply[Len(reply)].rows[2]

Whether == Complete <=> reply[Len(reply)].rows[2] = Len(Rows[asked])

RowsInv == Filling /\ (asked # List => Contiguous) /\ RowsOnce

LEMMA RowsInit == ServerInit => RowsInv
BY DEF ServerInit, RowsInv, Filling, RowsOnce, Contiguous

LEMMA RowsOfFragment ==
    ASSUME ServerTypes, RowsInv, Fragment
    PROVE  RowsInv'
<1> DEFINE last == Serialized(asked, pos)
<1>1. serving = "get" /\ asked \in DOMAIN Rows /\ asked # List /\ asked' = asked
  BY RparamAssumption DEF Fragment, ServerTypes, List
<1>2. reply' = Append(reply, Numbered(last)) BY <1>1 DEF Fragment
<1>3. Packets(asked) \in Nat \ {0} BY <1>1, PacketsType
<1>4. pkts = Packets(asked) /\ p \in 0 .. pkts - 1 /\ p \in Nat /\ pkts \in Nat
  BY <1>1, <1>3 DEF RowsInv, Filling, ServerTypes
<1>5. PICK cut : Cuts(asked, cut) /\ pos = cut[p] BY <1>1 DEF RowsInv, Filling
<1>6. last = cut[p + 1] /\ (last = Len(Rows[asked]) <=> p + 1 = pkts)
  <2>1. p + 1 \in 1 .. Packets(asked) /\ (p + 1) - 1 = p BY <1>3, <1>4
  <2>2. \A k \in 1 .. Packets(asked) :
          cut[k] = Serialized(asked, cut[k - 1]) /\ (cut[k] = Len(Rows[asked]) <=> k = Packets(asked))
    BY <1>5 DEF Cuts
  <2> QED BY <1>4, <1>5, <2>1, <2>2
<1> HIDE DEF last
<1>7. PICK n \in Nat : n = Len(reply) BY <1>1, AppendToSequence DEF ServerTypes
<1>8. /\ DOMAIN reply = 1 .. n /\ DOMAIN reply' = 1 .. n + 1 /\ Len(reply') = n + 1
      /\ reply' # <<>> /\ reply'[n + 1] = Numbered(last) /\ (reply = <<>> <=> n = 0)
      /\ \A i \in 1 .. n : reply'[i] = reply[i]
  BY <1>2, <1>7, AppendToSequence DEF ServerTypes
<1>9. /\ Numbered(last).rows[1] = pos + 1 /\ Numbered(last).rows[2] = last
      /\ Numbered(last).seq = IF pkts = 1 THEN 0 ELSE IF p = pkts - 1 THEN pkts ELSE p
      /\ Numbered(last).total = IF pkts = 1 THEN 0 ELSE pkts
  BY DEF Numbered
<1>10. pos = IF n = 0 THEN 0 ELSE reply[n].rows[2] BY <1>1, <1>7, <1>8 DEF RowsInv, Filling
<1>11. Contiguous'
  <2>1. SUFFICES ASSUME NEW i \in 1 .. n + 1
                 PROVE  reply'[i].rows[1] = IF i = 1 THEN 1 ELSE reply'[i - 1].rows[2] + 1
    BY <1>8 DEF Contiguous
  <2>2. CASE i = n + 1
    <3>1. n # 0 => n \in 1 .. n /\ (n + 1) - 1 = n BY <1>7
    <3>2. n # 0 => reply'[n] = reply[n] BY <1>8, <3>1
    <3> QED BY <1>7, <1>8, <1>9, <1>10, <2>2, <3>1, <3>2
  <2>3. CASE i # n + 1
    <3>1. i \in 1 .. n /\ (i # 1 => i - 1 \in 1 .. n) BY <1>7, <2>3
    <3>2. reply[i].rows[1] = IF i = 1 THEN 1 ELSE reply[i - 1].rows[2] + 1
      BY <1>1, <1>8, <3>1 DEF RowsInv, Contiguous
    <3> QED BY <1>8, <3>1, <3>2
  <2> QED BY <2>2, <2>3
<1>12. Whether'
  <2>1. Complete' <=> Numbered(last).seq = Numbered(last).total BY <1>8 DEF Complete
  <2>2. Complete' <=> p + 1 = pkts
    BY <1>4, <1>9, <2>1
  <2> QED BY <1>1, <1>6, <1>8, <1>9, <2>2 DEF Whether
<1>13. Filling'
  <2>1. CASE p + 1 < pkts
    <3>1. p' = p + 1 /\ pos' = last /\ pkts' = pkts BY <1>1, <2>1 DEF Fragment, last
    <3>2. p' \in 0 .. pkts' - 1 BY <1>4, <2>1, <3>1
    <3>3. Packets(asked)' = Packets(asked) BY <1>1
    <3>4. Cuts(asked, cut)' BY <1>1, <1>5 DEF Cuts
    <3>5. pos' = cut[p'] BY <1>6, <3>1
    <3>6. pos' = reply'[Len(reply')].rows[2] BY <1>8, <1>9, <3>1
    <3> QED BY <1>4, <1>8, <3>1, <3>2, <3>3, <3>4, <3>5, <3>6 DEF Filling
  <2>2. CASE ~(p + 1 < pkts)
    <3>1. serving' = "none" BY <1>1, <2>2 DEF Fragment, Answered
    <3> QED BY <3>1 DEF Filling
  <2> QED BY <2>1, <2>2
<1> QED BY <1>11, <1>12, <1>13 DEF RowsInv, RowsOnce, Contiguous, Whether

LEMMA RowsStep == ServerTypes /\ RowsInv /\ [ServerNext]_allVars => RowsInv'
<1> SUFFICES ASSUME ServerTypes, RowsInv, [ServerNext]_allVars PROVE RowsInv' OBVIOUS
<1>1. ASSUME NEW t \in DOMAIN Rows, GetTable(t) PROVE RowsInv'
  <2>1. /\ asked' = t /\ reply' = <<>> /\ pkts' = Packets(t) /\ p' = 0 /\ pos' = 0
        /\ serving' = "get"
    BY <1>1 DEF GetTable
  <2>2. Packets(t) \in Nat \ {0} BY PacketsType
  <2>3. \E cut : Cuts(t, cut) BY TablesFit DEF Cuts
  <2>4. PICK cut : Cuts(t, cut) BY <2>3
  <2>5. Cuts(asked, cut)' /\ pos' = cut[p'] BY <2>1, <2>4 DEF Cuts
  <2>6. pkts' = Packets(asked)' BY <2>1
  <2>7. p' \in 0 .. pkts' - 1 BY <2>1, <2>2
  <2>8. Filling' BY <2>1, <2>5, <2>6, <2>7 DEF Filling
  <2> QED BY <2>1, <2>8 DEF RowsInv, RowsOnce, Contiguous
<1>2. CASE Fragment BY <1>2, RowsOfFragment
<1>3. ASSUME NEW names \in Lists, GetList(names) PROVE RowsInv'
  BY <1>3 DEF GetList, RowsInv, Filling, RowsOnce
<1>4. CASE Aside
  <2>1. Filling' BY <1>4 DEF Aside, server, RowsInv, Filling, Cuts
  <2>2. RowsOnce' BY <1>4 DEF Aside, RowsInv, RowsOnce, Complete
  <2> QED BY <1>4, <2>1, <2>2 DEF Aside, RowsInv, Contiguous
<1>5. CASE SetBegin BY <1>5 DEF SetBegin, RowsInv, Filling, RowsOnce
<1> QED BY <1>1, <1>2, <1>3, <1>4, <1>5, ServerSteps

\* The answer to a GET of a whole table holds its rows once and in order, and
\* is complete to the master's eye only with the last of them, wherever it
\* breaks off and whatever is asked next (rparam_server.c:78-133): the layout
\* of the tables makes the count in bytes agree with the filling in rows.
THEOREM EveryRowOnce == ServerSpec => []RowsOnce
<1>1. RowsInv => RowsOnce BY DEF RowsInv
<1> QED
  BY <1>1, ServerTypesInit, ServerTypesStep, RowsInit, RowsStep, PTL DEF ServerSpec

-----------------------------------------------------------------------------
(* The tunnel under the server                                             *)

\* Every step of the server is one of the tunnel, and while an answer is under
\* way it is one of the worker.
LEMMA TunnelSteps ==
    ASSUME [ServerNext]_allVars
    PROVE  /\ [Next]_vars
           /\ UNCHANGED vars \/ (Worker /\ UNCHANGED server) \/ (Master /\ serving = "set")
<1>1. ASSUME NEW t \in DOMAIN Rows, GetTable(t) PROVE UNCHANGED vars BY <1>1 DEF GetTable
<1>2. CASE Fragment BY <1>2 DEF Fragment
<1>3. CASE Break BY <1>3 DEF Break
<1>4. ASSUME NEW names \in Lists, GetList(names) PROVE UNCHANGED vars BY <1>4 DEF GetList
<1>5. CASE SetBegin BY <1>5 DEF SetBegin
<1>6. CASE SetItem BY <1>6 DEF SetItem, Next
<1>7. CASE SetEnd BY <1>7 DEF SetEnd
<1>8. CASE WorkerRuns BY <1>8 DEF WorkerRuns, Next
<1>9. CASE UNCHANGED allVars BY <1>9 DEF allVars
<1> QED BY <1>1, <1>2, <1>3, <1>4, <1>5, <1>6, <1>7, <1>8, <1>9 DEF ServerNext

LEMMA TunnelInServer == ServerSpec => Spec
<1>1. ServerInit => Init BY DEF ServerInit
<1>2. [ServerNext]_allVars => [Next]_vars BY TunnelSteps
<1> QED BY <1>1, <1>2, PTL DEF ServerSpec, Spec

\* The server is one of the masters that the tunnel was made for: in the two
\* together, commands end in order and once each, and the table that a GET reads
\* never announces a result that is not in it (rparam_server.c:132, 208 over
\* sh_handler.c:160-222).
THEOREM TunnelKeepsItsPromises == ServerSpec => RefinesService /\ []DoneIsWhole /\ []BusyIsShown
BY TunnelInServer, TunnelImplementsService, DoneTableIsWhole, BusyWorkerIsShown, PTL

\* Commands are taken in the order of their numbers, and the output buffer is of
\* the last that ran.
Ordered ==
    /\ buf.cmd <= cmd /\ cmd <= accepted
    /\ pc \in {"check", "begin", "reset"} => buf.cmd < cmd
    /\ pc \notin {"receive", "check", "begin", "reset"} => buf.cmd = cmd
    /\ queue # <<>> => queue = <<accepted>> /\ cmd < accepted

LEMMA TunnelNumbers ==
    ASSUME TypeOK
    PROVE  buf.cmd \in Nat /\ cmd \in Nat /\ accepted \in Nat /\ 0 \in 0 .. MaxPage
BY ShellAssumption DEF TypeOK, Output, Cmd

LEMMA OrderedStep == TypeOK /\ Ordered /\ [Next]_vars => Ordered'
<1> SUFFICES ASSUME TypeOK, Ordered, [Next]_vars PROVE Ordered' OBVIOUS
<1>a. buf.cmd \in Nat /\ cmd \in Nat /\ accepted \in Nat BY TunnelNumbers
<1>b. buf \in Output BY DEF TypeOK
<1>1. ASSUME NEW q \in 0 .. MaxPage, SetPage(q) PROVE Ordered'
  BY <1>1 DEF SetPage, Ordered
<1>2. CASE SetStop BY <1>2 DEF SetStop, Ordered
<1>3. CASE SetCommand
  <2>1. UNCHANGED <<pc, cmd, buf>> /\ accepted' = accepted + 1 /\ queue' = <<accepted'>>
    BY <1>3 DEF SetCommand
  <2> QED BY <1>a, <2>1 DEF Ordered
<1>4. CASE Receive
  <2>1. /\ queue = <<accepted>> /\ cmd < accepted /\ pc' = "check" /\ cmd' = Head(queue)
        /\ queue' = <<>> /\ UNCHANGED <<buf, accepted>>
    BY <1>4 DEF Receive, Ordered
  <2>2. cmd' = accepted BY <2>1
  <2> QED BY <1>a, <2>1, <2>2 DEF Ordered
<1>5. CASE Check BY <1>5 DEF Check, Ordered
<1>6. CASE Begin BY <1>6 DEF Begin, Write, Ordered
<1>7. CASE ResetOutput
  <2>1. buf'.cmd = cmd BY <1>7 DEF ResetOutput, NoOutput
  <2>2. pc' = "run" /\ UNCHANGED <<queue, cmd, accepted>> BY <1>7 DEF ResetOutput
  <2> QED BY <1>a, <2>1, <2>2 DEF Ordered
<1>8. CASE WriteChar
  <2>1. buf'.cmd = buf.cmd /\ UNCHANGED <<queue, pc, cmd, accepted>>
    BY <1>8, <1>b DEF WriteChar, Output
  <2> QED BY <2>1 DEF Ordered
<1>9. CASE Return
  <2>1. buf'.cmd = buf.cmd /\ UNCHANGED <<queue, cmd, accepted>> /\ pc = "run" /\ pc' = "flag"
    BY <1>9, <1>b DEF Return, Output
  <2> QED BY <2>1 DEF Ordered
<1>10. CASE Flag BY <1>10 DEF Flag, Ordered
<1>11. CASE StopRows BY <1>11, <1>a DEF StopRows, Write, Copy, Ordered
<1>12. CASE Publish BY <1>12, <1>a DEF Publish, Write, Copy, Ordered
<1>13. CASE UNCHANGED vars BY <1>13 DEF vars, Ordered
<1> QED BY <1>1, <1>2, <1>3, <1>4, <1>5, <1>6, <1>7, <1>8, <1>9, <1>10, <1>11, <1>12, <1>13
        DEF Next, Master, Worker

-----------------------------------------------------------------------------
(* One result                                                              *)

Sizes == {"status", "pages", "outlen"}

\* A fragment that announces a result of a command that no stop has raced.
Announces(f) == f.of # 0 /\ Sizes \subseteq DOMAIN f.seen /\ f.seen["status"] = "DONE"

\* What `out' may be next to the other rows of a result of command c.
IsOf(out, c, pages, outlen, free) ==
    \E i \in 0 .. MaxPage, k \in 0 .. PageSize :
       \A j \in 1 .. PageSize :
          out[j] = Mixed(c, i, k, pages, outlen)[j] \/ (free /\ Newer(out[j], c))
OfResult(out, f) == ShownUpTo(out, PageSize, f.of, f.seen["pages"], f.seen["outlen"])
Fits(out, f) == IsOf(out, f.of, f.seen["pages"], f.seen["outlen"], ~idle)

\* What is shown of a result is of it.
LEMMA ShownIsOf ==
    ASSUME NEW out, NEW c, NEW pages, NEW outlen, NEW free,
           ShownUpTo(out, PageSize, c, pages, outlen)
    PROVE  IsOf(out, c, pages, outlen, free)
BY DEF ShownUpTo, IsOf

\* It goes on to be when characters of a newer one are written over it.
LEMMA StillIsOf ==
    ASSUME NEW out, NEW new, NEW c, NEW pages, NEW outlen, NEW free \in BOOLEAN,
           IsOf(out, c, pages, outlen, free),
           \A j \in 1 .. PageSize : new[j] = out[j] \/ (free /\ Newer(new[j], c))
    PROVE  IsOf(new, c, pages, outlen, free)
<1>1. PICK i \in 0 .. MaxPage, k \in 0 .. PageSize :
         \A j \in 1 .. PageSize :
            out[j] = Mixed(c, i, k, pages, outlen)[j] \/ (free /\ Newer(out[j], c))
  BY DEF IsOf
<1>2. ASSUME NEW j \in 1 .. PageSize
      PROVE  new[j] = Mixed(c, i, k, pages, outlen)[j] \/ (free /\ Newer(new[j], c))
  <2>1. CASE new[j] = out[j]
    <3>1. Newer(out[j], c) => Newer(new[j], c) BY <2>1
    <3> QED BY <1>1, <2>1, <3>1
  <2>2. CASE free /\ Newer(new[j], c) BY <2>2
  <2> QED BY <2>1, <2>2
<1> QED BY <1>2 DEF IsOf

\* The row `out' fits wherever it was read, and would fit if it were read next;
\* the worker is still behind the command of the answer, or has a newer one.
Ahead(f) ==
    /\ Fits(table.out, f)
    /\ f.of \in Nat /\ buf.cmd >= f.of
    /\ pc \in {"run", "flag", "pages", "outlen", "page", "out"} => buf.cmd > f.of

OutFits ==
    reply # <<>> /\ Announces(reply[1]) =>
        /\ \A i \in DOMAIN reply :
              "out" \in DOMAIN reply[i].seen => Fits(reply[i].seen["out"], reply[1])
        /\ serving = "get" => Ahead(reply[1])

\* No command came in hand since an idle tunnel was asked.
StaysIdle == serving = "get" /\ idle => ~InHandNow

\* Only the first fragment has the rows that say what is there.
SizesFirst ==
    /\ \A i \in DOMAIN reply : i # 1 => Sizes \cap DOMAIN reply[i].seen = {}
    /\ serving = "get" =>
          pos \in IF reply = <<>> THEN {0} ELSE Serialized(asked, 0) .. Len(Rows[asked])

AnswerInv == StaysIdle /\ SizesFirst /\ OutFits

\* The rows of a fragment of table 1.
LEMMA SeenType ==
    ASSUME NEW t, NEW names
    PROVE  /\ DOMAIN Values(t, names) \subseteq names
           /\ t # Shell => DOMAIN Values(t, names) = {}
           /\ \A r \in DOMAIN Values(t, names) : t = Shell /\ Values(t, names)[r] = table[r]
<1>1. DOMAIN <<>> = {} OBVIOUS
<1> QED BY <1>1 DEF Values

\* A fragment that is the first and announces a result shows all of it.
LEMMA FirstFits ==
    ASSUME TypeOK, Whole, Ordered, NEW f, NEW t, NEW names,
           f.seen = Values(t, names), f.of = IF hit THEN 0 ELSE buf.cmd, Announces(f)
    PROVE  /\ OfResult(table.out, f) /\ Fits(table.out, f)
           /\ f.of = buf.cmd /\ pc \in {"receive", "check", "begin"}
<1>1. ~hit /\ f.of = buf.cmd BY DEF Announces
<1>2. \A r \in Sizes : f.seen[r] = table[r] BY SeenType DEF Announces
<1>3. table.status = "DONE" /\ f.seen["pages"] = table.pages /\ f.seen["outlen"] = table.outlen
  BY <1>2 DEF Sizes, Announces
<1>4. OutShown(PageSize) /\ pc \in {"receive", "check", "begin"}
  BY <1>1, <1>3 DEF Whole, Announced
<1>5. OfResult(table.out, f) BY <1>1, <1>3, <1>4 DEF OutShown, OfResult
<1>6. Fits(table.out, f) BY <1>5, ShownIsOf DEF OfResult, Fits
<1> QED BY <1>1, <1>4, <1>5, <1>6

\* Whatever the worker does, the row `out' goes on to fit.
LEMMA AheadStep ==
    ASSUME TypeOK, Ordered, StaysIdle, serving = "get", Worker, UNCHANGED server,
           NEW f, Ahead(f)
    PROVE  Ahead(f)'
<1>a. table \in Table /\ buf \in Output BY DEF TypeOK
<1>b. buf.cmd \in Nat /\ cmd \in Nat /\ f.of \in Nat /\ 0 \in Nat BY TunnelNumbers DEF Ahead
<1>c. idle' = idle BY DEF server
<1>d. idle => queue = <<>> /\ pc = "receive" BY DEF StaysIdle, InHandNow
<1>e. ASSUME table'.out = table.out PROVE Fits(table.out, f)'
  BY <1>c, <1>e DEF Ahead, Fits
<1>f. ASSUME NEW at, NEW next, NEW new \in Shown, Copy(at, next, new), ~idle,
             \A j \in 1 .. PageSize : Newer(new[j], f.of)
      PROVE  Fits(table.out, f)'
  <2>1. copied \in 0 .. PageSize - 1 /\ PageSize \in Nat BY ShellAssumption DEF TypeOK
  <2>2. /\ table'.out[copied + 1] = new[copied + 1]
        /\ \A j \in 1 .. PageSize : j # copied + 1 => table'.out[j] = table.out[j]
    BY <1>a, <1>f, <2>1, CopyRows
  <2>3. ASSUME NEW j \in 1 .. PageSize
        PROVE  table'.out[j] = table.out[j] \/ (~idle /\ Newer(table'.out[j], f.of))
    <3>1. CASE j = copied + 1
      <4>1. table'.out[j] = new[j] BY <2>2, <3>1
      <4>2. Newer(new[j], f.of) BY <1>f
      <4> QED BY <1>f, <4>1, <4>2
    <3>2. CASE j # copied + 1 BY <2>2, <3>2
    <3> QED BY <3>1, <3>2
  <2>4. IsOf(table.out, f.of, f.seen["pages"], f.seen["outlen"], ~idle) BY DEF Ahead, Fits
  <2>5. (~idle) \in BOOLEAN OBVIOUS
  <2>6. IsOf(table'.out, f.of, f.seen["pages"], f.seen["outlen"], ~idle)
    BY <2>3, <2>4, <2>5, StillIsOf
  <2> QED BY <1>c, <2>6 DEF Fits
<1>1. CASE Receive
  BY <1>1, <1>e DEF Receive, Ahead
<1>2. CASE Check
  BY <1>2, <1>e DEF Check, Ahead
<1>3. CASE Begin
  <2>1. table'.out = table.out /\ UNCHANGED buf /\ pc' = "reset"
    BY <1>3, <1>a DEF Begin, Write, Table
  <2> QED BY <1>e, <2>1 DEF Ahead
<1>4. CASE ResetOutput
  <2>1. UNCHANGED table /\ buf'.cmd = cmd BY <1>4 DEF ResetOutput, NoOutput
  <2>2. buf.cmd < cmd BY <1>4 DEF ResetOutput, Ordered
  <2>3. buf'.cmd > f.of BY <1>b, <2>1, <2>2 DEF Ahead
  <2> QED BY <1>b, <1>e, <2>1, <2>3 DEF Ahead
<1>5. CASE WriteChar
  <2>1. UNCHANGED <<table, pc>> /\ buf'.cmd = buf.cmd BY <1>5, <1>a DEF WriteChar, Output
  <2> QED BY <1>e, <2>1 DEF Ahead
<1>6. CASE Return
  <2>1. UNCHANGED table /\ buf'.cmd = buf.cmd /\ pc = "run" BY <1>6, <1>a DEF Return, Output
  <2> QED BY <1>e, <2>1 DEF Ahead
<1>7. CASE Flag
  <2>1. UNCHANGED <<table, buf>> /\ pc = "flag" BY <1>7 DEF Flag
  <2> QED BY <1>e, <2>1 DEF Ahead
<1>8. CASE StopRows
  <2>1. /\ UNCHANGED buf /\ pc # "receive"
        /\ pc' \in {"stopPages", "stopLen", "stopOut", "receive"}
    BY <1>8 DEF StopRows, Write, Copy
  <2>2. Fits(table.out, f)'
    <3>1. CASE Copy("stopOut", "receive", Blank)
      <4>1. \A j \in 1 .. PageSize : Newer(Blank[j], f.of) BY DEF Blank, Newer
      <4> QED BY <1>d, <1>f, <2>1, <3>1, <4>1, BlankType
    <3>2. CASE ~Copy("stopOut", "receive", Blank)
      <4>1. table'.out = table.out BY <1>8, <1>a, <3>2 DEF StopRows, Write, Table
      <4> QED BY <1>e, <4>1
    <3> QED BY <3>1, <3>2
  <2> QED BY <2>1, <2>2 DEF Ahead
<1>9. CASE Publish
  <2>1. /\ UNCHANGED buf /\ pc # "receive"
        /\ pc' \in {"outlen", "page"} => pc \in {"pages", "outlen"}
        /\ pc' = "out" => pc \in {"page", "out"}
        /\ pc' \in {"outlen", "page", "out", "done", "receive"}
    BY <1>9 DEF Publish, Write, Copy
  <2>2. Fits(table.out, f)'
    <3>1. CASE Copy("out", "done", LoadPage(0))
      <4>1. buf.cmd > f.of BY <3>1 DEF Copy, Ahead
      <4>2. ASSUME NEW j \in 1 .. PageSize PROVE Newer(LoadPage(0)[j], f.of)
        <5>1. PICK n : LoadPage(0)[j] = NUL \/ LoadPage(0)[j] = <<buf.cmd, n>> BY DEF LoadPage
        <5> QED BY <4>1, <5>1 DEF Newer
      <4>3. LoadPage(0) \in Shown BY <1>a, LoadPageType
      <4> QED BY <1>d, <1>f, <2>1, <3>1, <4>2, <4>3
    <3>2. CASE ~Copy("out", "done", LoadPage(0))
      <4>1. table'.out = table.out BY <1>9, <1>a, <3>2 DEF Publish, Write, Table
      <4> QED BY <1>e, <4>1
    <3> QED BY <3>1, <3>2
  <2> QED BY <2>1, <2>2 DEF Ahead
<1> QED BY <1>1, <1>2, <1>3, <1>4, <1>5, <1>6, <1>7, <1>8, <1>9 DEF Worker

LEMMA AnswerInit == ServerInit => AnswerInv /\ Ordered
<1> SUFFICES ASSUME ServerInit PROVE AnswerInv /\ Ordered OBVIOUS
<1>1. AnswerInv BY DEF ServerInit, AnswerInv, StaysIdle, SizesFirst, OutFits
<1>2. Ordered BY DEF ServerInit, Init, Ordered, NoOutput
<1> QED BY <1>1, <1>2

TunnelInv == TypeOK /\ Whole /\ Ordered

\* The rows behind the first fragment of table 1 say nothing of a size.
LEMMA LaterRows ==
    ASSUME NEW from \in Nat, from >= Serialized(Shell, 0), NEW last \in Nat,
           last <= Len(Rows[Shell])
    PROVE  Sizes \cap Names(Shell, from + 1, last) = {}
<1>1. Shell \in DOMAIN Rows /\ Len(Rows[Shell]) \in Nat
      /\ DOMAIN Rows[Shell] = 1 .. Len(Rows[Shell])
  BY RparamAssumption
<1>2. Serialized(Shell, 0) \in Nat BY <1>1, SerializedType
<1>3. SUFFICES ASSUME NEW k \in from + 1 .. last, Rows[Shell][k].name \in Sizes PROVE FALSE
  BY DEF Names
<1>4. k \in DOMAIN Rows[Shell] /\ k > Serialized(Shell, 0) /\ k \in Nat BY <1>1, <1>2
<1>5. k <= Serialized(Shell, 0) BY <1>3, <1>4, ResultFirst DEF Sizes
<1> QED BY <1>2, <1>4, <1>5

LEMMA AnswerOfFragment ==
    ASSUME ServerTypes, TunnelInv, AnswerInv, Fragment
    PROVE  AnswerInv'
<1> DEFINE last == Serialized(asked, pos)
           names == Names(asked, pos + 1, last)
<1>b. PICK new : new = Numbered(last) OBVIOUS
<1>1. serving = "get" /\ asked \in DOMAIN Rows /\ asked' = asked /\ idle' = idle
      /\ UNCHANGED vars
  BY DEF Fragment, ServerTypes
<1>2. reply' = Append(reply, new) BY <1>1, <1>b DEF Fragment
<1>3. new.seen = Values(asked, names) /\ new.of = IF hit THEN 0 ELSE buf.cmd BY <1>b DEF Numbered
<1>a. Len(Rows[asked]) \in Nat BY <1>1, RparamAssumption
<1>4. 0 \in 0 .. Len(Rows[asked]) /\ Serialized(asked, 0) \in 0 .. Len(Rows[asked])
  BY <1>1, <1>a, SerializedType
<1>5. /\ pos \in IF reply = <<>> THEN {0} ELSE Serialized(asked, 0) .. Len(Rows[asked])
      /\ pos \in 0 .. Len(Rows[asked])
  BY <1>1, <1>a, <1>4 DEF AnswerInv, SizesFirst
<1>6. last \in pos .. Len(Rows[asked]) BY <1>1, <1>5, SerializedType
<1>7. reply # <<>> => Sizes \cap DOMAIN new.seen = {}
  <2> SUFFICES ASSUME reply # <<>> PROVE Sizes \cap DOMAIN new.seen = {} OBVIOUS
  <2>1. DOMAIN new.seen \subseteq names /\ (asked # Shell => DOMAIN new.seen = {})
    BY <1>3, SeenType
  <2>2. CASE asked = Shell
    <3>1. pos \in Nat /\ pos >= Serialized(Shell, 0) /\ last \in Nat /\ last <= Len(Rows[Shell])
      BY <1>a, <1>4, <1>5, <1>6, <2>2
    <3>2. Sizes \cap names = {} BY <2>2, <3>1, LaterRows
    <3> QED BY <2>1, <3>2
  <2> QED BY <2>1, <2>2
<1> HIDE DEF last, names
<1>8. PICK n \in Nat : n = Len(reply) BY <1>1, AppendToSequence DEF ServerTypes
<1>9. /\ DOMAIN reply = 1 .. n /\ DOMAIN reply' = 1 .. n + 1
      /\ reply' # <<>> /\ reply'[n + 1] = new /\ (reply = <<>> <=> n = 0)
      /\ \A i \in 1 .. n : reply'[i] = reply[i]
  BY <1>2, <1>8, AppendToSequence DEF ServerTypes
<1>10. SizesFirst'
  <2>1. \A i \in DOMAIN reply' : i # 1 => Sizes \cap DOMAIN reply'[i].seen = {}
    <3> SUFFICES ASSUME NEW i \in 1 .. n + 1, i # 1
                 PROVE  Sizes \cap DOMAIN reply'[i].seen = {}
      BY <1>9
    <3>1. CASE i = n + 1 BY <1>7, <1>8, <1>9, <3>1
    <3>2. CASE i # n + 1
      <4>1. i \in 1 .. n BY <1>8, <3>2
      <4> QED BY <1>9, <4>1 DEF AnswerInv, SizesFirst
    <3> QED BY <3>1, <3>2
  <2>2. serving' = "get" => pos' = last
    BY <1>1 DEF Fragment, Answered, last
  <2>3. pos = 0 => last = Serialized(asked, 0) BY DEF last
  <2>4. last \in Serialized(asked, 0) .. Len(Rows[asked])
    <3>1. CASE reply = <<>>
      <4>1. pos = 0 BY <1>5, <3>1
      <4> QED BY <1>6, <1>a, <1>4, <2>3, <4>1
    <3>2. CASE reply # <<>> BY <1>a, <1>4, <1>5, <1>6, <3>2
    <3> QED BY <3>1, <3>2
  <2>5. Serialized(asked, 0)' = Serialized(asked, 0) /\ Len(Rows[asked])' = Len(Rows[asked])
    BY <1>1
  <2> QED BY <1>1, <1>9, <2>1, <2>2, <2>4, <2>5 DEF SizesFirst
<1>11. Announces(new) => Fits(table.out, new) /\ buf.cmd = new.of /\ new.of \in Nat
                         /\ pc \in {"receive", "check", "begin"}
  BY <1>3, FirstFits, TunnelNumbers DEF TunnelInv
<1>12. "out" \in DOMAIN new.seen => new.seen["out"] = table.out BY <1>3, SeenType
<1>13. \A out, f : Fits(out, f)' <=> Fits(out, f)
  BY <1>1 DEF Fits
<1>14. table' = table /\ buf' = buf /\ pc' = pc BY <1>1 DEF vars
<1>15. \A f : Ahead(f) => Ahead(f)'
  <2> TAKE f
  <2>1. Fits(table.out, f)' <=> Fits(table.out, f)
    BY <1>1, <1>14 DEF Fits
  <2> QED BY <1>14, <2>1 DEF Ahead
<1>16. OutFits'
  <2>1. CASE n = 0
    <3>1. reply'[1] = new /\ \A i \in DOMAIN reply' : reply'[i] = new BY <1>9, <2>1
    <3> SUFFICES ASSUME Announces(new)
                 PROVE  /\ "out" \in DOMAIN new.seen => Fits(new.seen["out"], new)'
                        /\ Ahead(new)'
      BY <3>1 DEF OutFits
    <3>2. Fits(table.out, new) BY <1>11
    <3>3. Ahead(new)
      <4>1. buf.cmd = new.of /\ new.of \in Nat /\ pc \in {"receive", "check", "begin"} BY <1>11
      <4> QED BY <3>2, <4>1 DEF Ahead
    <3> QED BY <1>12, <1>13, <1>15, <3>2, <3>3
  <2>2. CASE n # 0
    <3>1. 1 \in 1 .. n /\ reply # <<>> BY <1>8, <1>9, <2>2
    <3>2. reply'[1] = reply[1] BY <1>9, <3>1
    <3>f. PICK f : f = reply[1] OBVIOUS
    <3> SUFFICES ASSUME Announces(f)
                 PROVE  /\ \A i \in 1 .. n + 1 :
                             "out" \in DOMAIN reply'[i].seen => Fits(reply'[i].seen["out"], f)
                        /\ Ahead(f)
      BY <1>9, <1>13, <1>15, <3>2, <3>f DEF OutFits
    <3>3. /\ \A i \in 1 .. n : "out" \in DOMAIN reply[i].seen => Fits(reply[i].seen["out"], f)
          /\ Ahead(f)
      BY <1>1, <1>9, <3>1, <3>f DEF AnswerInv, OutFits
    <3>4. Fits(table.out, f) BY <3>3 DEF Ahead
    <3>5. ASSUME NEW i \in 1 .. n + 1, "out" \in DOMAIN reply'[i].seen
          PROVE  Fits(reply'[i].seen["out"], f)
      <4>1. CASE i = n + 1 BY <1>9, <1>12, <3>4, <3>5, <4>1
      <4>2. CASE i # n + 1
        <5>1. i \in 1 .. n BY <1>8, <4>2
        <5> QED BY <1>9, <3>3, <3>5, <5>1
      <4> QED BY <4>1, <4>2
    <3> QED BY <3>3, <3>5
  <2> QED BY <2>1, <2>2
<1>17. StaysIdle'
  BY <1>1 DEF AnswerInv, StaysIdle, InHandNow, vars
<1> QED BY <1>10, <1>16, <1>17 DEF AnswerInv

LEMMA AnswerStep ==
    ServerTypes /\ TunnelInv /\ AnswerInv /\ [ServerNext]_allVars => AnswerInv'
<1> SUFFICES ASSUME ServerTypes, TunnelInv, AnswerInv, [ServerNext]_allVars PROVE AnswerInv'
  OBVIOUS
<1>1. ASSUME NEW t \in DOMAIN Rows, GetTable(t) PROVE AnswerInv'
  <2>1. reply' = <<>> /\ pos' = 0 /\ idle' = ~InHandNow /\ UNCHANGED vars
    BY <1>1 DEF GetTable
  <2>2. InHandNow' <=> InHandNow BY <2>1 DEF InHandNow, vars
  <2>3. DOMAIN <<>> = {} OBVIOUS
  <2>4. StaysIdle' BY <2>1, <2>2 DEF StaysIdle
  <2>5. SizesFirst' BY <2>1, <2>3 DEF SizesFirst
  <2>6. OutFits' BY <2>1 DEF OutFits
  <2> QED BY <2>4, <2>5, <2>6 DEF AnswerInv
<1>2. CASE Fragment BY <1>2, AnswerOfFragment
<1>3. ASSUME NEW names \in Lists, GetList(names) PROVE AnswerInv'
  <2>1. PICK new : /\ new.seen = Values(Shell, names)
                   /\ new.of = IF hit THEN 0 ELSE buf.cmd
                   /\ reply' \in {<<>>, <<new>>}
    <3> DEFINE one == [seq |-> 0, total |-> 0, rows |-> <<1, 0>>, seen |-> Values(Shell, names),
                       of |-> IF hit THEN 0 ELSE buf.cmd]
    <3>1. one.seen = Values(Shell, names) /\ one.of = IF hit THEN 0 ELSE buf.cmd OBVIOUS
    <3>2. reply' \in {<<>>, <<one>>} BY <1>3 DEF GetList
    <3> QED BY <3>1, <3>2, Zenon
  <2>2. serving' = "none" /\ UNCHANGED vars BY <1>3 DEF GetList
  <2>3. \A i \in DOMAIN reply' : i = 1 /\ reply'[i] = new BY <2>1
  <2>4. reply' # <<>> => reply'[1] = new BY <2>1
  <2>5. "out" \in DOMAIN new.seen => new.seen["out"] = table.out BY <2>1, SeenType
  <2>6. Announces(new) => OfResult(table.out, new) BY <2>1, FirstFits DEF TunnelInv
  <2>7. OutFits'
    <3> SUFFICES ASSUME reply' # <<>>, Announces(new), NEW i \in DOMAIN reply',
                        "out" \in DOMAIN new.seen
                 PROVE  Fits(new.seen["out"], new)'
      BY <2>2, <2>3, <2>4 DEF OutFits
    <3>1. OfResult(new.seen["out"], new) BY <2>5, <2>6
    <3>2. IsOf(new.seen["out"], new.of, new.seen["pages"], new.seen["outlen"], (~idle)')
      BY <3>1, ShownIsOf DEF OfResult
    <3> QED BY <3>2 DEF Fits
  <2>8. SizesFirst' BY <2>2, <2>3 DEF SizesFirst
  <2> QED BY <2>2, <2>7, <2>8 DEF AnswerInv, StaysIdle
<1>4. CASE Aside
  <2>1. UNCHANGED <<asked, reply, idle>> BY <1>4 DEF Aside
  <2>2. \A i \in DOMAIN reply' : i # 1 => Sizes \cap DOMAIN reply'[i].seen = {}
    BY <2>1 DEF AnswerInv, SizesFirst
  <2>3. \A out, f : Fits(out, f)' <=> Fits(out, f) BY <2>1 DEF Fits
  <2>4. ASSUME reply # <<>>, Announces(reply[1])
        PROVE  \A i \in DOMAIN reply' :
                  "out" \in DOMAIN reply'[i].seen => Fits(reply'[i].seen["out"], reply[1])
    BY <2>1, <2>4 DEF AnswerInv, OutFits
  <2>5. PICK f : f = reply[1] OBVIOUS
  <2>6. CASE serving' # "get"
    <3>1. OutFits' BY <2>1, <2>3, <2>4, <2>5, <2>6 DEF OutFits
    <3> QED BY <2>2, <2>6, <3>1 DEF AnswerInv, StaysIdle, SizesFirst
  <2>7. CASE serving' = "get"
    <3>1. serving = "get" /\ UNCHANGED server BY <1>4, <2>7 DEF Aside, server
    <3>2. UNCHANGED vars \/ Worker BY <3>1, TunnelSteps
    <3>3. SizesFirst' BY <2>2, <3>1 DEF server, AnswerInv, SizesFirst
    <3>4. StaysIdle'
      <4>1. idle => queue = <<>> /\ pc = "receive" BY <3>1 DEF AnswerInv, StaysIdle, InHandNow
      <4>2. idle => UNCHANGED vars
        BY <3>2, <4>1 DEF Worker, Receive, Check, Begin, ResetOutput, WriteChar, Return, Flag,
                          StopRows, Publish, Write, Copy
      <4> QED BY <2>1, <4>1, <4>2 DEF StaysIdle, InHandNow, vars
    <3>5. Ahead(f) => Ahead(f)'
      <4>1. CASE Worker BY <3>1, <4>1, AheadStep DEF TunnelInv, AnswerInv
      <4>2. CASE UNCHANGED vars
        <5>1. Fits(table.out, f)' <=> Fits(table.out, f)
          BY <2>1, <4>2 DEF vars, Fits
        <5> QED BY <4>2, <5>1 DEF Ahead, vars
      <4> QED BY <3>2, <4>1, <4>2
    <3>6. reply # <<>> /\ Announces(f) => Ahead(f) BY <2>5, <3>1 DEF AnswerInv, OutFits
    <3>7. OutFits'
      <4>1. reply' = reply /\ reply'[1] = f BY <2>1, <2>5
      <4> SUFFICES ASSUME reply # <<>>, Announces(f)
                   PROVE  /\ \A i \in DOMAIN reply' :
                                "out" \in DOMAIN reply'[i].seen => Fits(reply'[i].seen["out"], f)
                          /\ Ahead(f)'
        BY <2>3, <4>1 DEF OutFits
      <4> QED BY <2>4, <2>5, <3>5, <3>6
    <3> QED BY <3>3, <3>4, <3>7 DEF AnswerInv
  <2> QED BY <2>6, <2>7
<1>5. CASE SetBegin
  <2>1. reply' = <<>> /\ serving' = "set" BY <1>5 DEF SetBegin
  <2>2. DOMAIN <<>> = {} OBVIOUS
  <2> QED BY <2>1, <2>2 DEF AnswerInv, StaysIdle, SizesFirst, OutFits
<1> QED BY <1>1, <1>2, <1>3, <1>4, <1>5, ServerSteps

\* An answer that says DONE of a command that no stop has raced is one result:
\* wherever the worker's steps fall between its fragments, down to the single
\* characters that it copies, every character of `out' is of the very output
\* whose size the other rows give, in its place, or, if commands were already in
\* hand when the request came, of a newer one; never of an older one
\* (rparam_server.c:91-133 against sh_handler.c:104 and :160-216).
THEOREM AnswersAreOneResult == ServerSpec => []AnswerIsOneResult
<1>1. AnswerInv => AnswerIsOneResult
  <2> DEFINE f == reply[1]
  <2> SUFFICES ASSUME AnswerInv, Complete, \A r \in {"status", "pages", "outlen", "out"} : Has(r),
                      Got("status") = "DONE", f.of # 0
               PROVE  IsOf(Got("out"), f.of, Got("pages"), Got("outlen"), ~idle)
    BY DEF AnswerIsOneResult, IsOf
  <2>1. reply # <<>> BY DEF Complete
  <2>2. ASSUME NEW r \in Sizes PROVE r \in DOMAIN f.seen /\ Got(r) = f.seen[r]
    <3> DEFINE j == CHOOSE i \in DOMAIN reply : r \in DOMAIN reply[i].seen
    <3>1. Has(r) BY DEF Sizes
    <3>2. j \in DOMAIN reply /\ r \in DOMAIN reply[j].seen BY <3>1, Zenon DEF Has
    <3>3. Got(r) = reply[j].seen[r] BY DEF Got
    <3> HIDE DEF j
    <3>4. j = 1 BY <3>2 DEF AnswerInv, SizesFirst
    <3> QED BY <3>2, <3>3, <3>4
  <2>3. Announces(f) BY <2>2 DEF Announces, Sizes
  <2>4. \A i \in DOMAIN reply : "out" \in DOMAIN reply[i].seen => Fits(reply[i].seen["out"], f)
    BY <2>1, <2>3 DEF AnswerInv, OutFits
  <2>5. Fits(Got("out"), f)
    <3> DEFINE j == CHOOSE i \in DOMAIN reply : "out" \in DOMAIN reply[i].seen
    <3>1. Has("out") OBVIOUS
    <3>2. j \in DOMAIN reply /\ "out" \in DOMAIN reply[j].seen BY <3>1, Zenon DEF Has
    <3>3. Got("out") = reply[j].seen["out"] BY DEF Got
    <3> QED BY <2>4, <3>2, <3>3
  <2>6. Got("pages") = f.seen["pages"] /\ Got("outlen") = f.seen["outlen"] BY <2>2 DEF Sizes
  <2> QED BY <2>5, <2>6 DEF Fits
<1>2. ServerInit => Init BY DEF ServerInit
<1>3. [ServerNext]_allVars => [Next]_vars BY TunnelSteps
<1>4. ServerInit => TunnelInv /\ AnswerInv BY <1>2, TypeInit, WholeInit, AnswerInit DEF TunnelInv
<1>5. TunnelInv /\ [ServerNext]_allVars => TunnelInv'
  BY <1>3, TypeStep, WholeStep, OrderedStep DEF TunnelInv
<1> QED
  BY <1>1, <1>4, <1>5, ServerTypesInit, ServerTypesStep, AnswerStep, PTL DEF ServerSpec
=============================================================================
