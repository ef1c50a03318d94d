----------------------------- MODULE PageAlloc -----------------------------
(***************************************************************************)
(* What src/src/db/store/store.h promises of a managed store: pages are    *)
(* allocated and released, and a page that is held shares no byte with     *)
(* another one or with the file header, whatever is opened, closed or      *)
(* killed in between.  Every page is a record: first byte and size.        *)
(***************************************************************************)
EXTENDS Integers

CONSTANTS Addresses,    \* where a page may start
          Sizes,        \* sizes a client asks for
          HeaderSize    \* STORE_HEADER_SIZE

VARIABLES live,         \* the pages the clients hold
          given         \* the page just handed out, 0 when it is dealt with

\* Two byte ranges that share nothing.
Disjoint(a, b) == a.page + a.size <= b.page \/ b.page + b.size <= a.page

Init == live = {} /\ given = 0

\* Somebody asks for a page, or the one who asked is gone.
Ask == given' = 0 /\ UNCHANGED live

Alloc(p, size) ==
  LET new == [page |-> p, size |-> size]
  IN  /\ given = 0 /\ given' = p
      /\ p >= HeaderSize
      /\ \A r \in live : Disjoint(r, new)
      /\ live' = live \cup {new}

Free(r) == live' = live \ {r} /\ given' = 0

Next == \/ Ask
        \/ \E p \in Addresses, size \in Sizes : Alloc(p, size)
        \/ \E r \in live : Free(r)

Spec == Init /\ [][Next]_<<live, given>>
=============================================================================
