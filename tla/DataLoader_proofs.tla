------------------------- MODULE DataLoader_proofs -------------------------
(***************************************************************************)
(* Proofs about DataLoader, for every size of a batch, every set of used   *)
(* addresses and every number of calls under way and of failures.          *)
(***************************************************************************)
EXTENDS DataLoader, SequenceTheorems, FiniteSetTheorems, TLAPS

(* What a batch is.                                                        *)
LEMMA BatchType ==
  ASSUME NEW start \in Nat
  PROVE  /\ Batch(start) \in Seq(Nat)
         /\ Len(Batch(start)) = LoadAmount
         /\ \A k \in 1 .. LoadAmount : Batch(start)[k] = start + k - 1
<1>1. LoadAmount \in Nat
  BY AmountAssumption
<1> QED
  BY <1>1 DEF Batch

LoadType == [ at : {"idle", "mempool", "info", "transactions"},
              copied : Seq(Nat), unused : Seq(Nat), counted : Seq(Nat) ]
PageType == [ counted : Seq(Nat), receive : Nat \cup {NoAddress},
              finished : BOOLEAN ]
Walking ==
  /\ load.at = "mempool" => Position(load) = 0 /\ addresses # << >>
  /\ load.at \in {"info", "transactions"} => Position(load) < Len(load.copied)

LEMMA IdleType == Idle \in LoadType /\ Idle.at = "idle" /\ Position(Idle) = 0
BY DEF Idle, LoadType, Position

(* BeginLoad keeps the types of what it changes.                           *)
LEMMA BeginLoadTypes ==
  ASSUME TypeOK, BeginLoad(addresses'), addresses # << >> => addresses' # << >>
  PROVE  load' \in LoadType /\ loading' \in BOOLEAN /\ page' \in PageType /\ Walking'
<1>1. load \in LoadType /\ page \in PageType /\ Walking
  BY DEF TypeOK, LoadType, PageType, Walking
<1> DEFINE found == addresses'
<1>2. CASE found = << >>
  <2>1. page' \in PageType
    BY <1>1, <1>2 DEF BeginLoad, Show, PageType, TypeOK
  <2> QED
    BY <1>1, <1>2, <2>1 DEF BeginLoad, TypeOK, Walking, Position
<1>3. CASE found # << >> /\ loading
  BY <1>1, <1>3 DEF BeginLoad, TypeOK, Walking, Position
<1>4. CASE found # << >> /\ ~loading
  <2>1. load' = [Idle EXCEPT !.at = "mempool"] /\ loading' = TRUE /\ page' = page
    BY <1>4 DEF BeginLoad
  <2>2. load' = [at |-> "mempool", copied |-> << >>, unused |-> << >>, counted |-> << >>]
    BY <2>1 DEF Idle
  <2>3. load' \in LoadType
    BY <2>2 DEF LoadType
  <2>4. load'.at = "mempool" /\ Position(load)' = 0
    BY <2>2 DEF Position
  <2> QED
    BY <1>1, <1>4, <2>1, <2>3, <2>4 DEF Walking
<1> QED
  BY <1>2, <1>3, <1>4 DEF TypeOK

(* So do the end of a load and the step to the next address.               *)
LEMMA GoOnTypes ==
  ASSUME TypeOK, NEW ld \in LoadType, ld.at = "info", GoOn(ld),
         UNCHANGED addresses
  PROVE  /\ load' \in LoadType /\ Walking'
         /\ loading' \in BOOLEAN /\ page' \in PageType
         /\ paging' \in BOOLEAN /\ overlapped' \in BOOLEAN /\ calls' \in Seq(Nat)
<1>1. /\ page \in PageType /\ paging \in BOOLEAN /\ overlapped \in BOOLEAN
      /\ calls \in Seq(Nat) /\ startIndex \in Nat /\ loading \in BOOLEAN
  BY DEF TypeOK, PageType
<1>2. CASE EndLoad(ld)
  <2>1. load' = Idle /\ loading' = FALSE
    BY <1>2 DEF EndLoad
  <2>2. load' \in LoadType /\ Walking'
    BY <2>1, IdleType DEF Idle, Walking
  <2>3. page' \in PageType
    <3>1. ld.counted \in Seq(Nat) /\ ld.unused \in Seq(Nat)
      BY DEF LoadType
    <3>2. ld.unused # << >> => Head(ld.unused) \in Nat
      BY <3>1
    <3> QED
      BY <1>1, <1>2, <3>1, <3>2 DEF EndLoad, Show, PageType
  <2>4. paging' \in BOOLEAN /\ overlapped' \in BOOLEAN
    BY <1>1, <1>2 DEF EndLoad
  <2>5. calls' \in Seq(Nat)
    BY <1>1, <1>2 DEF EndLoad
  <2> QED
    BY <2>1, <2>2, <2>3, <2>4, <2>5
<1>3. CASE /\ Position(ld) < Len(ld.copied)
           /\ load' = ld
           /\ UNCHANGED <<paging, loading, calls, page, overlapped>>
  <2>1. load' \in LoadType
    BY <1>3
  <2>2. Walking'
    BY <1>3 DEF Walking, Position
  <2> QED
    BY <1>1, <1>3, <2>1, <2>2
<1> QED
  BY <1>2, <1>3 DEF GoOn

(* What UnusedReply and TransactionsReply add.                             *)
LEMMA CurrentType ==
  ASSUME TypeOK, load.at \in {"info", "transactions"}
  PROVE  /\ Position(load) \in Nat
         /\ Position(load) + 1 \in DOMAIN load.copied
         /\ Current \in Nat
<1>1. load.copied \in Seq(Nat) /\ load.unused \in Seq(Nat) /\ load.counted \in Seq(Nat)
  BY DEF TypeOK
<1>2. Position(load) \in Nat /\ Position(load) < Len(load.copied)
  BY <1>1 DEF TypeOK, Position
<1> QED
  BY <1>1, <1>2 DEF Current

LEMMA NextLoadType ==
  ASSUME TypeOK, load.at \in {"info", "transactions"}
  PROVE  /\ [load EXCEPT !.unused = Append(@, Current)] \in LoadType
         /\ [load EXCEPT !.at = "info", !.counted = Append(@, Current)] \in LoadType
<1>1. Current \in Nat /\ load \in LoadType
  BY CurrentType DEF TypeOK, LoadType
<1>2. PICK c \in Nat : c = Current
  BY <1>1
<1>3. /\ Append(load.unused, c) \in Seq(Nat) /\ Append(load.counted, c) \in Seq(Nat)
  BY <1>1 DEF LoadType
<1>4. [load EXCEPT !.unused = Append(@, c)] \in LoadType
  BY <1>1, <1>3 DEF LoadType
<1>5. [load EXCEPT !.at = "info", !.counted = Append(@, c)] \in LoadType
  <2>1. [load EXCEPT !.at = "info"] \in LoadType
    BY <1>1 DEF LoadType
  <2>2. [load EXCEPT !.at = "info", !.counted = Append(@, c)]
          = [[load EXCEPT !.at = "info"] EXCEPT !.counted = Append(load.counted, c)]
    BY <1>1 DEF LoadType
  <2> QED
    BY <1>3, <2>1, <2>2 DEF LoadType
<1> QED
  BY <1>2, <1>4, <1>5

THEOREM LoaderInitTypes == Init => TypeOK
<1> SUFFICES ASSUME Init PROVE TypeOK
  OBVIOUS
<1>1. load = [at |-> "idle", copied |-> << >>, unused |-> << >>, counted |-> << >>]
  BY DEF Init, Idle
<1>2. page = [counted |-> << >>, receive |-> NoAddress, finished |-> FALSE]
  BY DEF Init
<1>3. failures \in 0 .. MaxFailures
  BY BoundAssumption DEF Init
<1>4. load \in LoadType /\ load.at = "idle"
  BY <1>1 DEF LoadType
<1>5. page \in PageType
  BY <1>2 DEF PageType
<1>6. used \subseteq Receivable
  BY DEF Init
<1> QED
  BY <1>3, <1>4, <1>5, <1>6 DEF Init, TypeOK, LoadType, PageType

(* A reply of getAddresses leaves addresses to load.                       *)
LEMMA Grows ==
  ASSUME TypeOK, AddressesReply
  PROVE  addresses' # << >>
<1>1. PICK s \in Seq(Nat), start \in Nat :
        s = addresses /\ start = Head(calls)
  BY DEF TypeOK, AddressesReply
<1>2. /\ Batch(start) \in Seq(Nat) /\ Len(Batch(start)) = LoadAmount
      /\ LoadAmount \in Nat \ {0}
  BY BatchType, AmountAssumption
<1>3. Len(s \o Batch(start)) = Len(s) + LoadAmount /\ Len(s) \in Nat
  BY <1>2, ConcatProperties, LenProperties
<1>4. s \o Batch(start) # << >>
  BY <1>2, <1>3
<1> QED
  BY <1>1, <1>4 DEF AddressesReply

LEMMA TypesStep == TypeOK /\ [Next]_vars => TypeOK'
<1> SUFFICES ASSUME TypeOK, [Next]_vars PROVE TypeOK'
  OBVIOUS
<1> USE BoundAssumption
<1>1. CASE Start
  BY <1>1 DEF Start, TypeOK, Position
<1>2. CASE Dispose
  BY <1>2 DEF Dispose, TypeOK, Position
<1>3. CASE Reload
  <2>1. BeginLoad(addresses') /\ addresses' = addresses
    BY <1>3 DEF Reload
  <2> QED
    BY <1>3, <2>1, BeginLoadTypes DEF Reload, TypeOK, LoadType, PageType, Walking
<1>4. CASE AddressesReply
  <2>1. BeginLoad(addresses')
    BY <1>4 DEF AddressesReply
  <2>2. Head(calls) \in Nat /\ Tail(calls) \in Seq(Nat)
    BY <1>4, SMTT(60) DEF AddressesReply, TypeOK
  <2>3. addresses' \in Seq(Nat)
    <3>1. PICK batch \in Seq(Nat) : addresses' = addresses \o batch
      BY <1>4, <2>2, BatchType DEF AddressesReply
    <3>2. addresses \in Seq(Nat)
      BY DEF TypeOK
    <3> QED
      BY <3>1, <3>2, ConcatProperties
  <2>4. startIndex' \in Nat
    BY <1>4, AmountAssumption DEF AddressesReply, TypeOK
  <2>5. addresses' # << >>
    BY <1>4, Grows
  <2> QED
    BY <1>4, <2>1, <2>2, <2>3, <2>4, <2>5, BeginLoadTypes
    DEF AddressesReply, TypeOK, LoadType, PageType, Walking
<1>5. CASE AddressesFail
  BY <1>5 DEF AddressesFail, TypeOK, Position
<1>6. CASE MempoolReply
  <2>1. load' = [load EXCEPT !.at = "info", !.copied = addresses]
    BY <1>6 DEF MempoolReply
  <2>2. load' \in LoadType
    BY <2>1 DEF TypeOK, LoadType
  <2>3. load'.at = "info" /\ Position(load)' = 0 /\ load'.copied = addresses
    BY <1>6, <2>1 DEF MempoolReply, TypeOK, Position
  <2>4. Len(addresses) > 0
    BY <1>6 DEF MempoolReply, TypeOK
  <2> QED
    BY <1>6, <2>2, <2>3, <2>4 DEF MempoolReply, TypeOK, LoadType
<1>7. CASE UnusedReply
  <2> DEFINE ld == [load EXCEPT !.unused = Append(@, Current)]
  <2>1. ld \in LoadType /\ ld.at = "info"
    BY <1>7, NextLoadType DEF UnusedReply, TypeOK
  <2>2. GoOn(ld) /\ addresses' = addresses
    BY <1>7 DEF UnusedReply
  <2> HIDE DEF ld
  <2> QED
    BY <1>7, <2>1, <2>2, GoOnTypes DEF UnusedReply, TypeOK, LoadType, PageType, Walking
<1>8. CASE UsedReply
  BY <1>8 DEF UsedReply, TypeOK, Position
<1>9. CASE TransactionsReply
  <2> DEFINE ld == [load EXCEPT !.at = "info", !.counted = Append(@, Current)]
  <2>1. ld \in LoadType /\ ld.at = "info"
    BY <1>9, NextLoadType DEF TransactionsReply, TypeOK
  <2>2. GoOn(ld) /\ addresses' = addresses
    BY <1>9 DEF TransactionsReply
  <2> HIDE DEF ld
  <2> QED
    BY <1>9, <2>1, <2>2, GoOnTypes DEF TransactionsReply, TypeOK, LoadType, PageType, Walking
<1>10. CASE LoadFail
  BY <1>10 DEF LoadFail, TypeOK, Idle
<1>11. CASE \E a \in Receivable : Receive(a) \/ Replaced(a)
  BY <1>11 DEF Receive, Replaced, TypeOK, Position
<1>12. CASE UNCHANGED vars
  BY <1>12 DEF vars, TypeOK, Position
<1> QED
  BY <1>1, <1>2, <1>3, <1>4, <1>5, <1>6, <1>7, <1>8, <1>9, <1>10, <1>11, <1>12 DEF Next

(* Type correctness of the loader.                                         *)
THEOREM LoaderTypes == Spec => []TypeOK
BY LoaderInitTypes, TypesStep, PTL DEF Spec

-----------------------------------------------------------------------------
(* A load that has put the first p addresses of the list copied into       *)
(* unused or counted, each into one of them and once.                      *)
Sorted(copied, unused, counted, p) ==
  /\ \A n \in DOMAIN copied : copied[n] = n - 1
  /\ \A n \in DOMAIN counted : counted[n] < p
  /\ \A n \in DOMAIN unused : unused[n] < p
  /\ \A m, n \in DOMAIN counted : counted[m] = counted[n] => m = n
  /\ \A m, n \in DOMAIN unused : unused[m] = unused[n] => m = n
  /\ \A m \in DOMAIN counted, n \in DOMAIN unused : counted[m] # unused[n]
Walk(ld) == Sorted(ld.copied, ld.unused, ld.counted, Position(ld))

(* Where the loader is, with or without a load under way.                  *)
Running ==
  /\ timer = "off" => addresses = << >> /\ calls = << >> /\ load.at = "idle" /\ ~loading
  /\ load.at # "idle" => loading
  /\ loading /\ load.at = "idle" => failures > 0
  /\ timer # "off" /\ addresses = << >> /\ calls = << >> => failures > 0

(* The invariant that makes the properties of the list inductive.          *)
LoaderInv ==
  /\ TypeOK
  /\ Running
  /\ NeverAhead
  /\ InOrderUnlessOverlapped
  /\ ~overlapped => Walk(load)
  /\ PageCountsOnce

(* The domain and the elements of a list of addresses.                     *)
LEMMA ListFacts ==
  ASSUME NEW s \in Seq(Nat)
  PROVE  /\ Len(s) \in Nat /\ DOMAIN s = 1 .. Len(s)
         /\ \A n \in DOMAIN s : s[n] \in Nat
BY LenProperties, ElementOfSeq

LEMMA AppendFacts ==
  ASSUME NEW s \in Seq(Nat), NEW e \in Nat
  PROVE  /\ Append(s, e) \in Seq(Nat)
         /\ Len(Append(s, e)) = Len(s) + 1
         /\ \A n \in 1 .. Len(s) : Append(s, e)[n] = s[n]
         /\ Append(s, e)[Len(s) + 1] = e
BY AppendProperties

(* An address appended to one of the two lists of a load, the other left.  *)
LEMMA AppendedTo ==
  ASSUME NEW s \in Seq(Nat), NEW t \in Seq(Nat), NEW p \in Nat,
         \A n \in DOMAIN s : s[n] < p,
         \A n \in DOMAIN t : t[n] < p,
         \A m, n \in DOMAIN s : s[m] = s[n] => m = n,
         \A m \in DOMAIN s, n \in DOMAIN t : s[m] # t[n]
  PROVE  /\ \A n \in DOMAIN Append(s, p) : Append(s, p)[n] < p + 1
         /\ \A n \in DOMAIN t : t[n] < p + 1
         /\ \A m, n \in DOMAIN Append(s, p) : Append(s, p)[m] = Append(s, p)[n] => m = n
         /\ \A m \in DOMAIN Append(s, p), n \in DOMAIN t : Append(s, p)[m] # t[n]
<1>1. PICK k \in Nat : k = Len(s)
  BY ListFacts
<1>2. PICK new \in Seq(Nat) : new = Append(s, p)
  BY AppendFacts
<1>3. /\ Len(new) = k + 1
      /\ \A n \in 1 .. k : new[n] = s[n]
      /\ new[k + 1] = p
  BY <1>1, <1>2, AppendFacts
<1>4. DOMAIN new = 1 .. k + 1
  BY <1>3, ListFacts
<1>5. DOMAIN s = 1 .. k
  BY <1>1, ListFacts
<1>6. \A n \in 1 .. k : s[n] \in Nat /\ s[n] < p
  BY <1>5, ListFacts
<1>7. \A n \in DOMAIN t : t[n] \in Nat /\ t[n] < p
  BY ListFacts
<1>8. \A n \in DOMAIN new : n \in 1 .. k \/ n = k + 1
  BY <1>4
<1>9. \A n \in DOMAIN new : new[n] < p + 1
  BY <1>3, <1>6, <1>8, SMTT(60)
<1>10. \A m, n \in DOMAIN new : new[m] = new[n] => m = n
  BY <1>3, <1>5, <1>6, <1>8
<1>11. \A m \in DOMAIN new, n \in DOMAIN t : new[m] # t[n]
  BY <1>3, <1>5, <1>7, <1>8, SMTT(60)
<1>12. \A n \in DOMAIN t : t[n] < p + 1
  BY <1>7
<1> QED
  BY <1>2, <1>9, <1>10, <1>11, <1>12

(* One more address than the load has walked so far.                       *)
LEMMA SortedOn ==
  ASSUME NEW c \in Seq(Nat), NEW u \in Seq(Nat), NEW v \in Seq(Nat), NEW p \in Nat,
         Sorted(c, u, v, p)
  PROVE  /\ Sorted(c, Append(u, p), v, p + 1)
         /\ Sorted(c, u, Append(v, p), p + 1)
<1>1. /\ \A n \in DOMAIN c : c[n] = n - 1
      /\ \A n \in DOMAIN v : v[n] < p
      /\ \A n \in DOMAIN u : u[n] < p
      /\ \A m, n \in DOMAIN v : v[m] = v[n] => m = n
      /\ \A m, n \in DOMAIN u : u[m] = u[n] => m = n
      /\ \A m \in DOMAIN v, n \in DOMAIN u : v[m] # u[n]
  BY DEF Sorted
<1>2. \A m \in DOMAIN u, n \in DOMAIN v : u[m] # v[n]
  BY <1>1
<1>3. /\ \A n \in DOMAIN Append(u, p) : Append(u, p)[n] < p + 1
      /\ \A n \in DOMAIN v : v[n] < p + 1
      /\ \A m, n \in DOMAIN Append(u, p) : Append(u, p)[m] = Append(u, p)[n] => m = n
      /\ \A m \in DOMAIN Append(u, p), n \in DOMAIN v : Append(u, p)[m] # v[n]
  <2>1. \A n \in DOMAIN u : u[n] < p
    BY <1>1
  <2>2. \A n \in DOMAIN v : v[n] < p
    BY <1>1
  <2>3. \A m, n \in DOMAIN u : u[m] = u[n] => m = n
    BY <1>1
  <2> QED
    BY <1>2, <2>1, <2>2, <2>3, AppendedTo
<1>4. /\ \A n \in DOMAIN Append(v, p) : Append(v, p)[n] < p + 1
      /\ \A n \in DOMAIN u : u[n] < p + 1
      /\ \A m, n \in DOMAIN Append(v, p) : Append(v, p)[m] = Append(v, p)[n] => m = n
      /\ \A m \in DOMAIN Append(v, p), n \in DOMAIN u : Append(v, p)[m] # u[n]
  BY <1>1, AppendedTo
<1>5. Sorted(c, Append(u, p), v, p + 1)
  BY <1>1, <1>3, Zenon DEF Sorted
<1>6. Sorted(c, u, Append(v, p), p + 1)
  BY <1>1, <1>4, Zenon DEF Sorted
<1> QED
  BY <1>5, <1>6

LEMMA WalkOn ==
  ASSUME NEW ld \in LoadType, Walk(ld), Position(ld) + 1 \in DOMAIN ld.copied
  PROVE  /\ Walk([ld EXCEPT !.unused = Append(@, ld.copied[Position(ld) + 1])])
         /\ Walk([ld EXCEPT !.at = "info",
                             !.counted = Append(@, ld.copied[Position(ld) + 1])])
<1>1. PICK c \in Seq(Nat), u \in Seq(Nat), v \in Seq(Nat) :
        c = ld.copied /\ u = ld.unused /\ v = ld.counted
  BY DEF LoadType
<1>2. PICK p \in Nat : p = Len(u) + Len(v)
  BY ListFacts
<1>3. Position(ld) = p
  BY <1>1, <1>2 DEF Position
<1>4. Sorted(c, u, v, p)
  BY <1>1, <1>3 DEF Walk
<1>5. c[p + 1] = p
  <2>1. c[p + 1] = p + 1 - 1
    BY <1>1, <1>3, <1>4 DEF Sorted
  <2> QED
    BY <2>1
<1>6. ASSUME NEW new, new = [ld EXCEPT !.unused = Append(u, p)] PROVE Walk(new)
  <2>1. new.copied = c /\ new.counted = v /\ new.unused = Append(u, p)
    BY <1>1, <1>6 DEF LoadType
  <2>2. Position(new) = Len(Append(u, p)) + Len(v)
    BY <2>1 DEF Position
  <2>3. Len(Append(u, p)) + Len(v) = p + 1
    BY <1>2, AppendFacts, ListFacts
  <2> QED
    BY <1>4, <2>1, <2>2, <2>3, SortedOn DEF Walk
<1>7. ASSUME NEW new, new = [ld EXCEPT !.at = "info", !.counted = Append(v, p)]
      PROVE  Walk(new)
  <2>1. new.copied = c /\ new.unused = u /\ new.counted = Append(v, p)
    BY <1>1, <1>7 DEF LoadType
  <2>2. Position(new) = Len(u) + Len(Append(v, p))
    BY <2>1 DEF Position
  <2>3. Len(u) + Len(Append(v, p)) = p + 1
    BY <1>2, AppendFacts, ListFacts
  <2> QED
    BY <1>4, <2>1, <2>2, <2>3, SortedOn DEF Walk
<1> QED
  BY <1>1, <1>3, <1>5, <1>6, <1>7

(* The next load is one address further on its walk.                       *)
LEMMA WalksOn ==
  ASSUME LoaderInv, load.at \in {"info", "transactions"}
  PROVE  LET next == [load EXCEPT !.unused = Append(@, Current)]
             last == [load EXCEPT !.at = "info", !.counted = Append(@, Current)]
         IN  /\ next \in LoadType /\ last \in LoadType
             /\ ~overlapped => Walk(next) /\ Walk(last)
<1>1. TypeOK /\ (~overlapped => Walk(load))
  BY DEF LoaderInv
<1>2. load \in LoadType /\ Position(load) + 1 \in DOMAIN load.copied
  BY <1>1, CurrentType DEF TypeOK, LoadType
<1> QED
  BY <1>1, <1>2, NextLoadType, WalkOn DEF Current

LEMMA WalkIdle == Walk(Idle)
BY DEF Walk, Sorted, Idle, Position

(* A list and the batch that starts at start, which is not past its end.   *)
LEMMA OneMoreBatch ==
  ASSUME NEW s \in Seq(Nat), NEW start \in Nat, start <= Len(s),
         \A n \in DOMAIN s : s[n] <= n - 1
  PROVE  /\ Len(s \o Batch(start)) = Len(s) + LoadAmount
         /\ s \o Batch(start) \in Seq(Nat)
         /\ \A n \in DOMAIN (s \o Batch(start)) : (s \o Batch(start))[n] <= n - 1
         /\ s = [n \in 1 .. Len(s) |-> n - 1] /\ start = Len(s) =>
              s \o Batch(start) = [n \in 1 .. Len(s) + LoadAmount |-> n - 1]
<1>1. PICK k \in Nat, l \in Nat, b \in Seq(Nat) :
        /\ k = Len(s) /\ l = LoadAmount /\ b = Batch(start) /\ Len(b) = l
        /\ \A j \in 1 .. l : b[j] = start + j - 1
  BY BatchType, AmountAssumption
<1>2. PICK new \in Seq(Nat) :
        /\ new = s \o b
        /\ Len(new) = k + l
        /\ \A n \in 1 .. k + l : new[n] = IF n <= k THEN s[n] ELSE b[n - k]
  <2>1. /\ s \o b \in Seq(Nat) /\ Len(s \o b) = Len(s) + Len(b)
        /\ \A n \in 1 .. Len(s) + Len(b) :
             (s \o b)[n] = IF n <= Len(s) THEN s[n] ELSE b[n - Len(s)]
    BY ConcatProperties
  <2>2. Len(s) = k /\ Len(b) = l
    BY <1>1
  <2> QED
    BY <2>1, <2>2
<1>3. DOMAIN new = 1 .. k + l /\ DOMAIN s = 1 .. k
  BY <1>1, <1>2
<1>4. ASSUME NEW n \in 1 .. k + l, n > k PROVE new[n] = start + (n - k) - 1
  <2>1. n - k \in 1 .. l
    BY <1>4
  <2> QED
    BY <1>1, <1>2, <1>4, <2>1
<1>5. \A n \in 1 .. k : new[n] = s[n] /\ s[n] \in Nat /\ s[n] <= n - 1
  <2> SUFFICES ASSUME NEW n \in 1 .. k
               PROVE  new[n] = s[n] /\ s[n] \in Nat /\ s[n] <= n - 1
    OBVIOUS
  <2>1. n \in 1 .. k + l /\ n <= k /\ n \in DOMAIN s
    BY <1>3
  <2>2. new[n] = s[n]
    BY <1>2, <2>1
  <2>3. s[n] \in Nat
    BY <2>1, ListFacts
  <2> QED
    BY <2>1, <2>2, <2>3
<1>6. ASSUME NEW n \in 1 .. k + l PROVE new[n] <= n - 1
  <2>1. CASE n <= k
    BY <1>5, <1>6, <2>1
  <2>2. CASE n > k
    BY <1>1, <1>4, <2>2
  <2> QED
    BY <2>1, <2>2
<1>7. ASSUME s = [n \in 1 .. k |-> n - 1], start = k
      PROVE  new = [n \in 1 .. k + l |-> n - 1]
  <2>1. ASSUME NEW n \in 1 .. k + l PROVE new[n] = n - 1
    <3>1. CASE n <= k
      <4>1. n \in 1 .. k
        BY <3>1
      <4> QED
        BY <1>5, <1>7, <4>1
    <3>2. CASE n > k
      BY <1>4, <1>7, <3>2
    <3> QED
      BY <3>1, <3>2
  <2>2. new = [n \in 1 .. k + l |-> new[n]]
    <3>1. new \in [1 .. Len(new) -> Nat]
      BY <1>2, LenProperties, Zenon
    <3>2. new \in [1 .. k + l -> Nat]
      BY <1>2, <3>1, Zenon
    <3> QED
      BY <3>2, Zenon
  <2> QED
    BY <2>1, <2>2
<1> QED
  BY <1>1, <1>2, <1>3, <1>6, <1>7

(* The list after an answer of getAddresses.                               *)
LEMMA Appended ==
  ASSUME LoaderInv, calls # << >>, addresses' = addresses \o Batch(Head(calls)),
         startIndex' = startIndex + LoadAmount
  PROVE  /\ startIndex' = Len(addresses')
         /\ \A n \in DOMAIN addresses' : addresses'[n] <= n - 1
         /\ ~overlapped => addresses' = [n \in 1 .. startIndex' |-> n - 1]
<1>1. PICK s \in Seq(Nat), k \in Nat :
        /\ s = addresses /\ k = Len(s) /\ startIndex = k
        /\ \A n \in DOMAIN s : s[n] <= n - 1
  BY DEF LoaderInv, TypeOK, NeverAhead
<1>2. PICK start \in Nat : start = Head(calls) /\ start <= k
  BY <1>1 DEF LoaderInv, TypeOK, NeverAhead
<1>3. /\ Len(s \o Batch(start)) = k + LoadAmount
      /\ \A n \in DOMAIN (s \o Batch(start)) : (s \o Batch(start))[n] <= n - 1
      /\ s = [n \in 1 .. k |-> n - 1] /\ start = k =>
              s \o Batch(start) = [n \in 1 .. k + LoadAmount |-> n - 1]
  BY <1>1, <1>2, OneMoreBatch
<1>4. ~overlapped => s = [n \in 1 .. k |-> n - 1] /\ start = k
  BY <1>1, <1>2 DEF LoaderInv, InOrderUnlessOverlapped
<1> QED
  BY <1>1, <1>2, <1>3, <1>4

-----------------------------------------------------------------------------
(* The step of each part of the invariant.                                 *)
LEMMA RunningStep == TypeOK /\ Running /\ [Next]_vars => Running'
<1> SUFFICES ASSUME TypeOK, Running, [Next]_vars PROVE Running'
  OBVIOUS
<1>0. failures \in Nat /\ calls \in Seq(Nat) /\ addresses \in Seq(Nat)
  BY BoundAssumption DEF TypeOK
<1>1. CASE Start
  <2>1. calls' # << >>
    <3>1. PICK k \in Nat, c \in Seq(Nat) : k = startIndex /\ c = calls
      BY <1>0 DEF TypeOK
    <3>2. Append(c, k) # << >>
      BY AppendProperties
    <3> QED
      BY <1>1, <3>1, <3>2 DEF Start
  <2> QED
    BY <1>1, <2>1 DEF Start, Running
<1>2. CASE Dispose
  BY <1>2 DEF Dispose, Running
<1>3. CASE Reload
  BY <1>3 DEF Reload, BeginLoad, Running, Idle
<1>4. CASE AddressesReply
  <2>1. addresses' # << >>
    BY <1>4, Grows
  <2>2. timer # "off" /\ timer' = timer /\ failures' = failures
    BY <1>4 DEF AddressesReply, Running
  <2>3. (load'.at # "idle" => loading') /\ (loading' /\ load'.at = "idle" => failures' > 0)
    BY <1>4 DEF AddressesReply, BeginLoad, Running, Idle
  <2> QED
    BY <2>1, <2>2, <2>3 DEF Running
<1>5. CASE AddressesFail
  BY <1>0, <1>5 DEF AddressesFail, Running
<1>6. CASE MempoolReply
  <2>1. load'.at = "info" /\ loading
    BY <1>6 DEF MempoolReply, TypeOK, Running
  <2> QED
    BY <1>6, <2>1 DEF MempoolReply, Running
<1>7. ASSUME NEW ld \in LoadType, ld.at = "info", GoOn(ld), load.at # "idle",
             UNCHANGED <<timer, addresses, failures>>
      PROVE  Running'
  <2>1. timer # "off" /\ loading
    BY <1>7 DEF Running
  <2>2. calls' = << >> => calls = << >>
    <3>1. PICK k \in Nat, c \in Seq(Nat) : k = startIndex /\ c = calls
      BY <1>0 DEF TypeOK
    <3>2. Append(c, k) # << >>
      BY AppendProperties
    <3>3. calls' = calls \/ calls' = Append(calls, startIndex)
      BY <1>7 DEF GoOn, EndLoad
    <3> QED
      BY <3>1, <3>2, <3>3
  <2>3. \/ load'.at = "idle" /\ loading' = FALSE
        \/ load'.at = "info" /\ loading' = loading
    BY <1>7 DEF GoOn, EndLoad, Idle
  <2> QED
    BY <1>7, <2>1, <2>2, <2>3 DEF Running
<1>8. CASE UnusedReply
  <2> DEFINE ld == [load EXCEPT !.unused = Append(@, Current)]
  <2>1. ld \in LoadType /\ ld.at = "info"
    BY <1>8, NextLoadType DEF UnusedReply, TypeOK
  <2> HIDE DEF ld
  <2>2. GoOn(ld)
    BY <1>8 DEF UnusedReply, ld
  <2> QED
    BY <1>7, <1>8, <2>1, <2>2 DEF UnusedReply
<1>9. CASE UsedReply
  <2>1. load'.at = "transactions" /\ loading
    BY <1>9 DEF UsedReply, TypeOK, Running
  <2> QED
    BY <1>9, <2>1 DEF UsedReply, Running
<1>10. CASE TransactionsReply
  <2> DEFINE ld == [load EXCEPT !.at = "info", !.counted = Append(@, Current)]
  <2>1. ld \in LoadType /\ ld.at = "info"
    BY <1>10, NextLoadType DEF TransactionsReply, TypeOK
  <2> HIDE DEF ld
  <2>2. GoOn(ld)
    BY <1>10 DEF TransactionsReply, ld
  <2> QED
    BY <1>7, <1>10, <2>1, <2>2 DEF TransactionsReply
<1>11. CASE LoadFail
  BY <1>0, <1>11 DEF LoadFail, Running, Idle
<1>12. CASE \E a \in Receivable : Receive(a) \/ Replaced(a)
  BY <1>12 DEF Receive, Replaced, Running
<1>13. CASE UNCHANGED vars
  BY <1>13 DEF vars, Running
<1> QED
  BY <1>1, <1>2, <1>3, <1>4, <1>5, <1>6, <1>8, <1>9, <1>10, <1>11, <1>12, <1>13 DEF Next


(* The calls under way after one more, at the place where the list ends.   *)
LEMMA OneMoreCall ==
  ASSUME NEW c \in Seq(Nat), NEW k \in Nat, \A n \in DOMAIN c : c[n] <= k
  PROVE  /\ \A n \in DOMAIN Append(c, k) : Append(c, k)[n] <= k
         /\ c = << >> => Append(c, k) = <<k>>
<1>1. PICK new \in Seq(Nat) : new = Append(c, k)
  BY AppendFacts
<1>2. PICK l \in Nat : l = Len(c)
  BY ListFacts
<1>3. /\ Len(new) = l + 1 /\ \A n \in 1 .. l : new[n] = c[n]
      /\ new[l + 1] = k
  BY <1>1, <1>2, AppendFacts
<1>4. DOMAIN new = 1 .. l + 1 /\ DOMAIN c = 1 .. l
  BY <1>2, <1>3, ListFacts
<1>5. \A n \in DOMAIN new : n \in 1 .. l \/ n = l + 1
  BY <1>4
<1>6. \A n \in DOMAIN new : new[n] <= k
  BY <1>3, <1>4, <1>5
<1>7. c = << >> => Append(c, k) = <<k>>
  OBVIOUS
<1> QED
  BY <1>1, <1>6, <1>7

(* And after the first is answered or has failed.                          *)
LEMMA OneLessCall ==
  ASSUME NEW c \in Seq(Nat), NEW k \in Nat, c # << >>, \A n \in DOMAIN c : c[n] <= k
  PROVE  /\ \A n \in DOMAIN Tail(c) : Tail(c)[n] <= k
         /\ c = <<k>> => Tail(c) = << >>
<1>0. /\ Tail(c) \in Seq(Nat) /\ Len(Tail(c)) = Len(c) - 1
      /\ \A n \in 1 .. Len(Tail(c)) : Tail(c)[n] = c[n + 1]
  BY HeadTailProperties
<1>1. PICK new \in Seq(Nat) : new = Tail(c)
  BY <1>0
<1>2. PICK l \in Nat : l = Len(c) /\ l > 0
  BY LenProperties, EmptySeq
<1>3. Len(new) = l - 1 /\ \A n \in 1 .. l - 1 : new[n] = c[n + 1]
  BY <1>0, <1>1, <1>2
<1>4. DOMAIN new = 1 .. l - 1 /\ DOMAIN c = 1 .. l
  BY <1>2, <1>3, ListFacts
<1>5. ASSUME NEW n \in DOMAIN new PROVE new[n] <= k
  <2>1. n \in 1 .. l - 1 /\ n + 1 \in 1 .. l
    BY <1>2, <1>4, SMTT(60)
  <2>2. c[n + 1] <= k
    BY <1>4, <2>1
  <2> QED
    BY <1>3, <2>1, <2>2
<1>6. c = <<k>> => Tail(c) = << >>
  OBVIOUS
<1> QED
  BY <1>1, <1>5, <1>6

(* BeginLoad begins a walk or leaves the one under way, and the page its   *)
(* figures.                                                                *)
LEMMA BeginLoadWalks ==
  ASSUME LoaderInv, BeginLoad(addresses'), UNCHANGED overlapped
  PROVE  (~overlapped' => Walk(load)') /\ PageCountsOnce'
<1>1. page \in PageType
  BY DEF LoaderInv, TypeOK, PageType
<1>2. page'.counted = page.counted /\ page'.receive = page.receive
  BY <1>1 DEF BeginLoad, Show, PageType
<1>3. load' = load \/ load' = [Idle EXCEPT !.at = "mempool"]
  BY DEF BeginLoad
<1>4. load' = [Idle EXCEPT !.at = "mempool"] => Walk(load)'
  BY DEF Walk, Sorted, Position, Idle
<1>5. load' = load /\ Walk(load) => Walk(load)'
  BY DEF Walk, Sorted, Position
<1> QED
  BY <1>2, <1>3, <1>4, <1>5 DEF LoaderInv, PageCountsOnce

(* So does the end of a load, whose walk the page then shows.              *)
LEMMA EndLoadWalks ==
  ASSUME LoaderInv, NEW ld \in LoadType, GoOn(ld), ~overlapped => Walk(ld)
  PROVE  (~overlapped' => Walk(load)') /\ PageCountsOnce'
<1>1. PICK u \in Seq(Nat), v \in Seq(Nat) : u = ld.unused /\ v = ld.counted
  BY DEF LoadType
<1>2. ~overlapped => /\ \A m, n \in DOMAIN v : v[m] = v[n] => m = n
                     /\ \A m \in DOMAIN v, n \in DOMAIN u : v[m] # u[n]
  BY <1>1 DEF Walk, Sorted
<1>3. CASE EndLoad(ld)
  <2>1. load' = Idle /\ (~overlapped' => ~overlapped)
    BY <1>3 DEF EndLoad, LoaderInv, TypeOK
  <2>2. Walk(load)'
    BY <2>1 DEF Idle, Walk, Sorted, Position
  <2>3. CASE page' = page
    BY <2>1, <2>2, <2>3 DEF LoaderInv, PageCountsOnce
  <2>4. CASE /\ page'.counted = v
             /\ page'.receive = IF u = << >> THEN NoAddress ELSE Head(u)
    <3>1. \A n \in DOMAIN v : v[n] # NoAddress
      BY ListFacts DEF NoAddress
    <3>2. u # << >> => 1 \in DOMAIN u /\ Head(u) = u[1]
      <4>1. u # << >> => Len(u) \in Nat /\ Len(u) # 0
        BY EmptySeq
      <4> QED
        BY <4>1, ListFacts
    <3>3. ~overlapped => \A n \in DOMAIN v : v[n] # page'.receive
      BY <1>2, <2>4, <3>1, <3>2
    <3> QED
      BY <1>2, <2>1, <2>2, <2>4, <3>3 DEF PageCountsOnce
  <2> QED
    BY <1>1, <1>3, <2>3, <2>4 DEF EndLoad, Show
<1>4. CASE load' = ld /\ UNCHANGED <<paging, loading, calls, page, overlapped>>
  <2>1. Walk(ld) => Walk(load)'
    BY <1>4 DEF Walk, Sorted, Position
  <2> QED
    BY <1>4, <2>1 DEF LoaderInv, PageCountsOnce
<1> QED
  BY <1>3, <1>4 DEF GoOn

(* What a step that may end a load does to the list and the calls.         *)
LEMMA GoOnList ==
  ASSUME LoaderInv, NEW ld \in LoadType, GoOn(ld), UNCHANGED <<addresses, startIndex>>
  PROVE  NeverAhead' /\ InOrderUnlessOverlapped'
<1>1. PICK c \in Seq(Nat), k \in Nat : c = calls /\ k = startIndex
  BY DEF LoaderInv, TypeOK
<1>2. /\ k = Len(addresses) /\ \A n \in DOMAIN c : c[n] <= k
      /\ \A n \in DOMAIN addresses : addresses[n] <= n - 1
  BY <1>1 DEF LoaderInv, NeverAhead
<1>3. /\ \A n \in DOMAIN Append(c, k) : Append(c, k)[n] <= k
      /\ c = << >> => Append(c, k) = <<k>>
  BY <1>2, OneMoreCall
<1>4. \/ calls' = c /\ overlapped' = overlapped
      \/ calls' = Append(c, k) /\ (overlapped' = (overlapped \/ c # << >>))
  BY <1>1 DEF GoOn, EndLoad, LoaderInv, TypeOK
<1>5. NeverAhead'
  BY <1>1, <1>2, <1>3, <1>4 DEF NeverAhead
<1>6. InOrderUnlessOverlapped'
  BY <1>1, <1>3, <1>4 DEF LoaderInv, InOrderUnlessOverlapped
<1> QED
  BY <1>5, <1>6


-----------------------------------------------------------------------------
(* A step keeps the list, the walk of the load and what the page shows.    *)
ListInv ==
  /\ NeverAhead
  /\ InOrderUnlessOverlapped
  /\ ~overlapped => Walk(load)
  /\ PageCountsOnce

LEMMA Untouched ==
  ASSUME LoaderInv, UNCHANGED <<addresses, startIndex, calls, load, page, overlapped>>
  PROVE  ListInv'
BY DEF LoaderInv, ListInv, NeverAhead, InOrderUnlessOverlapped, PageCountsOnce,
       Walk, Sorted, Position

LEMMA LoadGoesOn ==
  ASSUME LoaderInv, NEW ld \in LoadType, GoOn(ld), ~overlapped => Walk(ld),
         UNCHANGED <<addresses, startIndex>>
  PROVE  ListInv'
BY EndLoadWalks, GoOnList DEF ListInv

LEMMA ListStep == LoaderInv /\ [Next]_vars => ListInv'
<1> SUFFICES ASSUME LoaderInv, [Next]_vars PROVE ListInv'
  OBVIOUS
<1>0. PICK c \in Seq(Nat), k \in Nat : c = calls /\ k = startIndex
  BY DEF LoaderInv, TypeOK
<1>a. TypeOK /\ k = Len(addresses) /\ \A n \in DOMAIN c : c[n] <= k
  BY <1>0 DEF LoaderInv, NeverAhead
<1>1. CASE Start
  <2>1. c = << >>
    BY <1>0, <1>1 DEF Start, LoaderInv, Running
  <2>2. /\ \A n \in DOMAIN Append(c, k) : Append(c, k)[n] <= k
        /\ Append(c, k) = <<k>>
    BY <1>a, <2>1, OneMoreCall
  <2>3. calls' = Append(c, k) /\ startIndex' = k /\ addresses' = addresses
    BY <1>0, <1>1 DEF Start
  <2>4. NeverAhead'
    BY <1>a, <2>2, <2>3 DEF LoaderInv, NeverAhead
  <2>5. InOrderUnlessOverlapped'
    BY <1>0, <1>1, <2>2, <2>3 DEF Start, LoaderInv, InOrderUnlessOverlapped
  <2>6. (~overlapped' => Walk(load)') /\ PageCountsOnce'
    BY <1>1 DEF Start, LoaderInv, Walk, Sorted, Position, PageCountsOnce
  <2> QED
    BY <2>4, <2>5, <2>6 DEF ListInv
<1>2. CASE Dispose
  BY <1>2, Untouched DEF Dispose
<1>3. CASE Reload
  <2>1. (~overlapped' => Walk(load)') /\ PageCountsOnce'
    BY <1>3, BeginLoadWalks DEF Reload
  <2>2. NeverAhead' /\ InOrderUnlessOverlapped'
    BY <1>3 DEF Reload, LoaderInv, NeverAhead, InOrderUnlessOverlapped
  <2> QED
    BY <2>1, <2>2 DEF ListInv
<1>4. CASE AddressesReply
  <2>1. c # << >> /\ calls' = Tail(c) /\ overlapped' = overlapped
    BY <1>0, <1>4 DEF AddressesReply
  <2>2. /\ \A n \in DOMAIN Tail(c) : Tail(c)[n] <= k
        /\ c = <<k>> => Tail(c) = << >>
    BY <1>a, <2>1, OneLessCall
  <2>3. /\ startIndex' = Len(addresses')
        /\ \A n \in DOMAIN addresses' : addresses'[n] <= n - 1
        /\ ~overlapped => addresses' = [n \in 1 .. startIndex' |-> n - 1]
    BY <1>4, Appended DEF AddressesReply
  <2>4. \A n \in DOMAIN calls' : calls'[n] <= startIndex'
    <3>1. PICK t \in Seq(Nat) : t = Tail(c) /\ \A n \in DOMAIN t : t[n] <= k
      BY <2>1, <2>2, HeadTailProperties
    <3>2. LoadAmount \in Nat /\ startIndex' = k + LoadAmount
      BY <1>0, <1>4, AmountAssumption DEF AddressesReply
    <3>3. \A n \in DOMAIN t : t[n] \in Nat /\ t[n] <= k + LoadAmount
      BY <3>1, <3>2, ListFacts
    <3> QED
      BY <2>1, <3>1, <3>2, <3>3
  <2>5. (~overlapped' => Walk(load)') /\ PageCountsOnce'
    BY <1>4, BeginLoadWalks DEF AddressesReply
  <2>6. ~overlapped => calls' = << >>
    BY <1>0, <2>1, <2>2 DEF LoaderInv, InOrderUnlessOverlapped
  <2>7. NeverAhead'
    BY <2>3, <2>4 DEF NeverAhead
  <2>8. InOrderUnlessOverlapped'
    BY <2>1, <2>3, <2>6 DEF InOrderUnlessOverlapped
  <2> QED
    BY <2>5, <2>7, <2>8 DEF ListInv
<1>5. CASE AddressesFail
  <2>1. c # << >> /\ calls' = Tail(c)
    BY <1>0, <1>5 DEF AddressesFail
  <2>2. /\ \A n \in DOMAIN Tail(c) : Tail(c)[n] <= k
        /\ c = <<k>> => Tail(c) = << >>
    BY <1>a, <2>1, OneLessCall
  <2>3. UNCHANGED <<addresses, startIndex, load, page, overlapped>>
    BY <1>5 DEF AddressesFail
  <2>4. ~overlapped => calls' = << >>
    BY <1>0, <2>1, <2>2 DEF LoaderInv, InOrderUnlessOverlapped
  <2>5. NeverAhead'
    BY <1>0, <2>1, <2>2, <2>3 DEF LoaderInv, NeverAhead
  <2>6. InOrderUnlessOverlapped'
    BY <2>3, <2>4 DEF LoaderInv, InOrderUnlessOverlapped
  <2>7. (~overlapped' => Walk(load)') /\ PageCountsOnce'
    BY <2>3 DEF LoaderInv, Walk, Sorted, Position, PageCountsOnce
  <2> QED
    BY <2>5, <2>6, <2>7 DEF ListInv
<1>6. CASE MempoolReply
  <2>1. load' = [load EXCEPT !.at = "info", !.copied = addresses]
    BY <1>6 DEF MempoolReply
  <2>2. /\ load'.copied = addresses /\ load'.unused = load.unused
        /\ load'.counted = load.counted
    BY <1>a, <2>1 DEF TypeOK
  <2>3. Position(load)' = Position(load)
    BY <2>2 DEF Position
  <2>4. ~overlapped => \A n \in DOMAIN addresses : addresses[n] = n - 1
    BY <1>0 DEF LoaderInv, InOrderUnlessOverlapped
  <2>5. ~overlapped => Walk(load)'
    BY <2>2, <2>3, <2>4 DEF LoaderInv, Walk, Sorted
  <2> QED
    BY <1>6, <2>5 DEF MempoolReply, LoaderInv, ListInv, NeverAhead,
                      InOrderUnlessOverlapped, PageCountsOnce
<1>7. CASE UnusedReply
  BY <1>7, WalksOn, LoadGoesOn DEF UnusedReply
<1>8. CASE UsedReply
  <2>1. load' = [load EXCEPT !.at = "transactions"]
    BY <1>8 DEF UsedReply
  <2>2. /\ load'.copied = load.copied /\ load'.unused = load.unused
        /\ load'.counted = load.counted
    BY <1>a, <2>1 DEF TypeOK
  <2>3. Position(load)' = Position(load)
    BY <2>2 DEF Position
  <2>4. ~overlapped => Walk(load)'
    BY <2>2, <2>3 DEF LoaderInv, Walk
  <2> QED
    BY <1>8, <2>4 DEF UsedReply, LoaderInv, ListInv, NeverAhead,
                      InOrderUnlessOverlapped, PageCountsOnce
<1>9. CASE TransactionsReply
  BY <1>9, WalksOn, LoadGoesOn DEF TransactionsReply
<1>10. CASE LoadFail
  <2>1. load' = Idle
    BY <1>10 DEF LoadFail
  <2>2. Walk(load)'
    BY <2>1 DEF Idle, Walk, Sorted, Position
  <2> QED
    BY <1>10, <2>2 DEF LoadFail, LoaderInv, ListInv, NeverAhead,
                       InOrderUnlessOverlapped, PageCountsOnce
<1>11. CASE \E a \in Receivable : Receive(a) \/ Replaced(a)
  BY <1>11, Untouched DEF Receive, Replaced
<1>12. CASE UNCHANGED vars
  BY <1>12, Untouched DEF vars
<1> QED
  BY <1>1, <1>2, <1>3, <1>4, <1>5, <1>6, <1>7, <1>8, <1>9, <1>10, <1>11, <1>12
  DEF Next

LEMMA LoaderInvInit == Init => LoaderInv
<1> SUFFICES ASSUME Init PROVE LoaderInv
  OBVIOUS
<1>1. TypeOK
  BY LoaderInitTypes
<1>2. Running
  BY DEF Init, Running, Idle
<1>3. NeverAhead
  BY DEF Init, NeverAhead
<1>4. InOrderUnlessOverlapped
  BY DEF Init, InOrderUnlessOverlapped
<1>5. Walk(load)
  BY WalkIdle DEF Init
<1>6. PageCountsOnce
  BY DEF Init, PageCountsOnce
<1> QED
  BY <1>1, <1>2, <1>3, <1>4, <1>5, <1>6 DEF LoaderInv

(* The invariant holds in every state of the loader.                       *)
THEOREM LoaderInvariant == Spec => []LoaderInv
<1>1. LoaderInv /\ [Next]_vars => LoaderInv'
  BY TypesStep, RunningStep, ListStep DEF LoaderInv, ListInv
<1> QED
  BY <1>1, LoaderInvInit, PTL DEF Spec

(* _startIndex is the length of the list, and no entry of the list and no  *)
(* call under way is past its place in the wallet, overlapped calls or not.*)
THEOREM ListNeverAhead == Spec => []NeverAhead
<1>1. LoaderInv => NeverAhead
  BY DEF LoaderInv
<1> QED
  BY <1>1, LoaderInvariant, PTL

(* Without overlapping calls the list is the wallet's first addresses, in  *)
(* order and without repetition.                                           *)
THEOREM ListInOrder == Spec => []InOrderUnlessOverlapped
<1>1. LoaderInv => InOrderUnlessOverlapped
  BY DEF LoaderInv
<1> QED
  BY <1>1, LoaderInvariant, PTL

(* Nor does the balance of the page then count an address twice, or the    *)
(* page offer to receive at an address that it counts.                     *)
THEOREM BalanceCountsOnce == Spec => []PageCountsOnce
<1>1. LoaderInv => PageCountsOnce
  BY DEF LoaderInv
<1> QED
  BY <1>1, LoaderInvariant, PTL

(* The loader comes to a stop for good only after a call has failed.       *)
THEOREM StopsOnlyByFailure == Spec => []StuckNeedsFailure
<1>1. LoaderInv => StuckNeedsFailure
  BY DEF LoaderInv, Running, StuckNeedsFailure, FlagLost, Stranded
<1> QED
  BY <1>1, LoaderInvariant, PTL

-----------------------------------------------------------------------------
(* A list whose entries differ has as many different entries as entries.   *)
LEMMA DistinctEntries ==
  ASSUME NEW s \in Seq(Nat), \A m, n \in DOMAIN s : s[m] = s[n] => m = n
  PROVE  Different(s) = Len(s)
<1>1. PICK k \in Nat : k = Len(s) /\ DOMAIN s = 1 .. k
  BY ListFacts
<1> DEFINE T == {s[n] : n \in DOMAIN s}
<1>2. IsFiniteSet(1 .. k) /\ Cardinality(1 .. k) = k
  BY FS_Interval
<1>3. s \in [1 .. k -> T]
  <2>1. s \in [1 .. k -> Nat]
    BY <1>1, LenProperties
  <2> QED
    BY <1>1, <2>1
<1>4. s \in Surjection(1 .. k, T)
  BY <1>1, <1>3 DEF Surjection
<1>5. s \in Injection(1 .. k, T)
  BY <1>1, <1>3 DEF Injection, IsInjective
<1>6. Cardinality(T) = Cardinality(1 .. k)
  BY <1>2, <1>4, <1>5, FS_Surjection
<1> QED
  BY <1>1, <1>2, <1>6 DEF Different

(* What the load is when a reply about an address has been put into it.    *)
LEMMA NextUnused ==
  ASSUME TypeOK, load.at = "info"
  PROVE  LET ld == [load EXCEPT !.unused = Append(@, Current)]
         IN  /\ ld.unused = FoundUnused /\ ld.counted = load.counted
             /\ ld.copied = load.copied /\ ld.at = "info"
BY DEF TypeOK, FoundUnused

LEMMA NextCounted ==
  ASSUME TypeOK, load.at = "transactions"
  PROVE  LET ld == [load EXCEPT !.at = "info", !.counted = Append(@, Current)]
         IN  /\ ld.unused = FoundUnused /\ ld.counted = Append(load.counted, Current)
             /\ ld.copied = load.copied /\ ld.at = "info"
             /\ FoundUnused = load.unused
BY DEF TypeOK, FoundUnused

(* The end of a load is where paging stops.                                *)
LEMMA StopsWithEnough ==
  ASSUME LoaderInv, NEW ld \in LoadType, GoOn(ld), ~overlapped => Walk(ld),
         paging, ~paging'
  PROVE  /\ Len(ld.unused) >= StopAmount
         /\ ~overlapped => Different(ld.unused) >= StopAmount
<1>1. PICK u \in Seq(Nat) : u = ld.unused /\ Len(u) \in Nat
  BY ListFacts DEF LoadType
<1>2. ~(Len(u) < StopAmount)
  BY <1>1 DEF GoOn, EndLoad
<1>3. Len(u) >= StopAmount
  BY <1>1, <1>2, AmountAssumption
<1>4. ASSUME ~overlapped PROVE Different(u) = Len(u)
  <2>1. \A m, n \in DOMAIN u : u[m] = u[n] => m = n
    BY <1>1, <1>4 DEF Walk, Sorted
  <2> QED
    BY <2>1, DistinctEntries
<1> QED
  BY <1>1, <1>3, <1>4

(* Paging stops only at the end of a load that found the stop amount of    *)
(* addresses without transactions, different ones unless calls overlapped: *)
(* what _continuePaging is set to after the loop over the addresses.       *)
THEOREM StopsPagingWithEnough == Spec => PagingStops
<1>1. ASSUME LoaderInv, [Next]_vars, paging, ~paging'
      PROVE  /\ Len(FoundUnused) >= StopAmount
             /\ ~overlapped => Different(FoundUnused) >= StopAmount
  <2>0. TypeOK
    BY <1>1 DEF LoaderInv
  <2>1. UnusedReply \/ TransactionsReply
    BY <1>1 DEF Next, vars, Start, Dispose, Reload, AddressesReply, AddressesFail,
                MempoolReply, UsedReply, LoadFail, Receive, Replaced
  <2>2. CASE UnusedReply
    <3>1. load.at = "info" /\ GoOn([load EXCEPT !.unused = Append(@, Current)])
      BY <2>2 DEF UnusedReply
    <3> QED
      BY <1>1, <2>0, <3>1, WalksOn, NextUnused, StopsWithEnough
  <2>3. CASE TransactionsReply
    <3>1. /\ load.at = "transactions"
          /\ GoOn([load EXCEPT !.at = "info", !.counted = Append(@, Current)])
      BY <2>3 DEF TransactionsReply
    <3> QED
      BY <1>1, <2>0, <3>1, WalksOn, NextCounted, StopsWithEnough
  <2> QED
    BY <2>1, <2>2, <2>3
<1>2. LoaderInv /\ [Next]_vars =>
        [paging /\ ~paging' =>
           /\ Len(FoundUnused) >= StopAmount
           /\ ~overlapped => Different(FoundUnused) >= StopAmount]_vars
  BY <1>1
<1> QED
  BY <1>2, LoaderInvariant, PTL DEF Spec, PagingStops

-----------------------------------------------------------------------------
(* What a load knows is what the chain says: the addresses counted, and    *)
(* the one whose transactions are asked for, have transactions, those      *)
(* unused have none.                                                       *)
Entries(s) == {s[n] : n \in DOMAIN s}
Agrees ==
  /\ Entries(load.counted) \subseteq used
  /\ Entries(load.unused) \cap used = {}
  /\ load.at = "transactions" => Current \in used

(* Nothing of the list copied is passed over: what the loop is past is in  *)
(* one of the two lists, whether or not calls overlapped.                  *)
Covers(copied, unused, counted, p) ==
  {copied[n] : n \in 1 .. p} = Entries(unused) \cup Entries(counted)
NonePassedOver == Covers(load.copied, load.unused, load.counted, Position(load))

LEMMA EntriesAppend ==
  ASSUME NEW s \in Seq(Nat), NEW e \in Nat
  PROVE  Entries(Append(s, e)) = Entries(s) \cup {e}
<1>1. PICK k \in Nat, new \in Seq(Nat) :
        /\ k = Len(s) /\ new = Append(s, e) /\ Len(new) = k + 1
        /\ \A n \in 1 .. k : new[n] = s[n]
        /\ new[k + 1] = e
  BY AppendFacts, ListFacts
<1>2. DOMAIN s = 1 .. k /\ DOMAIN new = 1 .. k + 1
  BY <1>1, ListFacts
<1>3. 1 .. k + 1 = (1 .. k) \cup {k + 1}
  OBVIOUS
<1>4. {new[n] : n \in 1 .. k + 1} = {new[n] : n \in 1 .. k} \cup {new[k + 1]}
  BY <1>3
<1>5. {new[n] : n \in 1 .. k} = {s[n] : n \in 1 .. k}
  BY <1>1
<1> QED
  BY <1>1, <1>2, <1>4, <1>5 DEF Entries

LEMMA CoversOn ==
  ASSUME NEW c \in Seq(Nat), NEW u \in Seq(Nat), NEW v \in Seq(Nat), NEW p \in Nat,
         Covers(c, u, v, p), p + 1 \in DOMAIN c
  PROVE  /\ Covers(c, Append(u, c[p + 1]), v, p + 1)
         /\ Covers(c, u, Append(v, c[p + 1]), p + 1)
<1>1. PICK e \in Nat : e = c[p + 1]
  BY ListFacts
<1>2. 1 .. p + 1 = (1 .. p) \cup {p + 1}
  OBVIOUS
<1>3. {c[n] : n \in 1 .. p + 1} = {c[n] : n \in 1 .. p} \cup {e}
  BY <1>1, <1>2
<1>4. /\ Entries(Append(u, e)) = Entries(u) \cup {e}
      /\ Entries(Append(v, e)) = Entries(v) \cup {e}
  BY EntriesAppend
<1> QED
  BY <1>1, <1>3, <1>4 DEF Covers

(* The next load has passed over nothing either.                           *)
LEMMA CoversNext ==
  ASSUME TypeOK, load.at \in {"info", "transactions"}, NonePassedOver,
         NEW ld \in LoadType, ld.copied = load.copied,
         \/ ld.unused = Append(load.unused, Current) /\ ld.counted = load.counted
         \/ ld.unused = load.unused /\ ld.counted = Append(load.counted, Current)
  PROVE  Covers(ld.copied, ld.unused, ld.counted, Position(ld))
<1>1. PICK c \in Seq(Nat), u \in Seq(Nat), v \in Seq(Nat) :
        c = load.copied /\ u = load.unused /\ v = load.counted
  BY DEF TypeOK
<1>2. PICK p \in Nat : p = Len(u) + Len(v)
  BY ListFacts
<1>3. Position(load) = p /\ p + 1 \in DOMAIN c /\ Covers(c, u, v, p)
  BY <1>1, <1>2, CurrentType DEF Position, NonePassedOver
<1>4. PICK e \in Nat : e = c[p + 1] /\ e = Current
  BY <1>1, <1>3, ListFacts DEF Current
<1>5. Covers(c, Append(u, e), v, p + 1) /\ Covers(c, u, Append(v, e), p + 1)
  BY <1>3, <1>4, CoversOn
<1>6. Len(Append(u, e)) + Len(v) = p + 1 /\ Len(u) + Len(Append(v, e)) = p + 1
  BY <1>2, AppendFacts, ListFacts
<1>7. CASE ld.unused = Append(u, e) /\ ld.counted = v
  BY <1>1, <1>5, <1>6, <1>7 DEF Position
<1>8. CASE ld.unused = u /\ ld.counted = Append(v, e)
  BY <1>1, <1>5, <1>6, <1>8 DEF Position
<1> QED
  BY <1>1, <1>4, <1>7, <1>8

LEMMA EmptyCovers ==
  ASSUME NEW c
  PROVE  Covers(c, << >>, << >>, 0)
<1>1. 1 .. 0 = {} /\ DOMAIN << >> = {}
  OBVIOUS
<1> QED
  BY <1>1 DEF Covers, Entries

LEMMA NonePassedOverStep ==
  ASSUME TypeOK, NonePassedOver, [Next]_vars
  PROVE  NonePassedOver'
<1>1. CASE load' = load
  BY <1>1 DEF NonePassedOver, Position
<1>2. CASE load'.unused = << >> /\ load'.counted = << >>
  <2>1. Position(load)' = 0
    BY <1>2 DEF Position
  <2> QED
    BY <1>2, <2>1, EmptyCovers DEF NonePassedOver
<1>3. CASE MempoolReply
  <2>1. load.unused = << >> /\ load.counted = << >>
    <3>1. PICK u \in Seq(Nat), v \in Seq(Nat) : u = load.unused /\ v = load.counted
      BY DEF TypeOK
    <3>2. Len(u) + Len(v) = 0
      BY <1>3, <3>1 DEF MempoolReply, TypeOK, Position
    <3>3. Len(u) = 0 /\ Len(v) = 0
      BY <3>2, ListFacts
    <3> QED
      BY <3>1, <3>3, EmptySeq
  <2> QED
    BY <1>2, <1>3, <2>1 DEF MempoolReply, TypeOK
<1>4. CASE UsedReply
  <2>1. /\ load'.copied = load.copied /\ load'.unused = load.unused
        /\ load'.counted = load.counted
    BY <1>4 DEF UsedReply, TypeOK
  <2> QED
    BY <2>1 DEF NonePassedOver, Position
<1>5. ASSUME NEW ld \in LoadType, GoOn(ld), Covers(ld.copied, ld.unused, ld.counted, Position(ld))
      PROVE  NonePassedOver'
  <2>1. CASE load' = Idle
    BY <1>2, <2>1 DEF Idle
  <2>2. CASE load' = ld
    BY <1>5, <2>2 DEF NonePassedOver, Position
  <2> QED
    BY <1>5, <2>1, <2>2 DEF GoOn, EndLoad
<1>6. CASE UnusedReply
  <2>1. load.at = "info" /\ GoOn([load EXCEPT !.unused = Append(@, Current)])
    BY <1>6 DEF UnusedReply
  <2> QED
    BY <1>5, <2>1, NextLoadType, NextUnused, CoversNext DEF FoundUnused
<1>7. CASE TransactionsReply
  <2>1. /\ load.at = "transactions"
        /\ GoOn([load EXCEPT !.at = "info", !.counted = Append(@, Current)])
    BY <1>7 DEF TransactionsReply
  <2> QED
    BY <1>5, <2>1, NextLoadType, NextCounted, CoversNext
<1>8. ASSUME BeginLoad(addresses') PROVE NonePassedOver'
  BY <1>1, <1>2, <1>8 DEF BeginLoad, Idle
<1>9. CASE LoadFail
  BY <1>2, <1>9 DEF LoadFail, Idle
<1> QED
  BY <1>1, <1>3, <1>4, <1>6, <1>7, <1>8, <1>9
  DEF Next, vars, Start, Dispose, Reload, AddressesReply, AddressesFail, Receive, Replaced

(* Every address of the list copied that the loop is past was put into one *)
(* of the two lists.                                                       *)
THEOREM LoadPassesOverNone == Spec => []NonePassedOver
<1>1. Init => NonePassedOver
  BY EmptyCovers DEF Init, Idle, NonePassedOver, Position
<1>2. LoaderInv => TypeOK
  BY DEF LoaderInv
<1> QED
  BY <1>1, <1>2, NonePassedOverStep, LoaderInvariant, PTL DEF Spec

(* What a load knows stays true for as long as the chain stands still, and *)
(* a load that ends with it and that the page is there to be told of shows *)
(* exactly the used ones of the list it copied, and to receive at one of   *)
(* the others.  This is what PageCatchesUp needs of one load; the load     *)
(* that begins knows nothing yet, so agrees with any chain.                *)
LoadEnds == load.at # "idle" /\ load'.at = "idle" /\ failures' = failures
ShowsTheChain ==
  [][/\ load.at = "idle" => Agrees'
     /\ used' = used /\ Agrees =>
          /\ Agrees'
          /\ LoadEnds /\ timer = "on" =>
               /\ Entries(page'.counted) = used \cap Entries(load.copied)
               /\ page'.receive \in (Entries(load.copied) \ used) \cup {NoAddress}]_vars

LEMMA NothingKnown ==
  ASSUME load'.unused = << >>, load'.counted = << >>, load'.at # "transactions"
  PROVE  Agrees'
<1>1. Entries(<< >>) = {}
  BY DEF Entries
<1> QED
  BY <1>1 DEF Agrees

LEMMA SameLoadAgrees ==
  ASSUME Agrees, load' = load, used' = used
  PROVE  Agrees'
BY DEF Agrees, Current, Position

(* The load with the reply in it knows what the chain says.                *)
LEMMA NextAgrees ==
  ASSUME TypeOK, Agrees, UnusedReply \/ TransactionsReply
  PROVE  \E ld \in LoadType :
           /\ GoOn(ld) /\ ld.at = "info" /\ ld.copied = load.copied
           /\ Entries(ld.counted) \subseteq used /\ Entries(ld.unused) \cap used = {}
           /\ NonePassedOver => Covers(ld.copied, ld.unused, ld.counted, Position(ld))
<1>1. CASE UnusedReply
  <2> DEFINE ld == [load EXCEPT !.unused = Append(@, Current)]
  <2>1. load.at = "info" /\ Current \notin used /\ GoOn(ld)
    BY <1>1 DEF UnusedReply
  <2>2. /\ ld \in LoadType /\ ld.unused = Append(load.unused, Current)
        /\ ld.counted = load.counted /\ ld.copied = load.copied /\ ld.at = "info"
    BY <2>1, NextLoadType, NextUnused DEF FoundUnused
  <2>3. Current \in Nat /\ load.unused \in Seq(Nat)
    BY <2>1, CurrentType DEF TypeOK
  <2>4. Entries(ld.unused) = Entries(load.unused) \cup {Current}
    BY <2>2, <2>3, EntriesAppend
  <2> HIDE DEF ld
  <2> QED
    BY <2>1, <2>2, <2>4, CoversNext DEF Agrees
<1>2. CASE TransactionsReply
  <2> DEFINE ld == [load EXCEPT !.at = "info", !.counted = Append(@, Current)]
  <2>1. load.at = "transactions" /\ Current \in used /\ GoOn(ld)
    BY <1>2 DEF TransactionsReply, Agrees
  <2>2. /\ ld \in LoadType /\ ld.counted = Append(load.counted, Current)
        /\ ld.unused = load.unused /\ ld.copied = load.copied /\ ld.at = "info"
    BY <2>1, NextLoadType, NextCounted
  <2>3. Current \in Nat /\ load.counted \in Seq(Nat)
    BY <2>1, CurrentType DEF TypeOK
  <2>4. Entries(ld.counted) = Entries(load.counted) \cup {Current}
    BY <2>2, <2>3, EntriesAppend
  <2> HIDE DEF ld
  <2> QED
    BY <2>1, <2>2, <2>4, CoversNext DEF Agrees
<1> QED
  BY <1>1, <1>2

(* What the page is shown at the end of a load that knows the chain.       *)
LEMMA EndShows ==
  ASSUME TypeOK, NEW ld \in LoadType, EndLoad(ld), Position(ld) = Len(ld.copied),
         timer = "on", Covers(ld.copied, ld.unused, ld.counted, Position(ld)),
         Entries(ld.counted) \subseteq used, Entries(ld.unused) \cap used = {}
  PROVE  /\ Entries(page'.counted) = used \cap Entries(ld.copied)
         /\ page'.receive \in (Entries(ld.copied) \ used) \cup {NoAddress}
<1>1. PICK c \in Seq(Nat), u \in Seq(Nat), v \in Seq(Nat) :
        c = ld.copied /\ u = ld.unused /\ v = ld.counted
  BY DEF LoadType
<1>2. Entries(c) = Entries(u) \cup Entries(v)
  <2>1. {c[n] : n \in 1 .. Len(c)} = Entries(u) \cup Entries(v)
    BY <1>1 DEF Covers
  <2>2. DOMAIN c = 1 .. Len(c)
    BY ListFacts
  <2> QED
    BY <2>1, <2>2 DEF Entries
<1>3. /\ page'.counted = v
      /\ page'.receive = IF u = << >> THEN NoAddress ELSE Head(u)
  BY <1>1 DEF EndLoad, Show
<1>4. u # << >> => Head(u) \in Entries(u)
  <2>1. u # << >> => Len(u) \in Nat /\ Len(u) # 0
    BY EmptySeq
  <2>2. u # << >> => 1 \in DOMAIN u /\ Head(u) = u[1]
    BY <2>1, ListFacts
  <2> QED
    BY <2>2 DEF Entries
<1> QED
  BY <1>1, <1>2, <1>3, <1>4

(* Between loads nothing is left of the last one.                          *)
Forgotten == load.at = "idle" => load = Idle

LEMMA ForgottenStep ==
  ASSUME TypeOK, Forgotten, [Next]_vars
  PROVE  Forgotten'
<1>1. CASE load' = load
  BY <1>1 DEF Forgotten
<1>2. CASE load' = Idle
  BY <1>2 DEF Forgotten, Idle
<1>3. CASE load'.at # "idle"
  BY <1>3 DEF Forgotten
<1>4. ASSUME NEW ld \in LoadType, GoOn(ld), ld.at = "info" PROVE Forgotten'
  BY <1>2, <1>3, <1>4 DEF GoOn, EndLoad
<1>5. CASE UnusedReply \/ TransactionsReply
  BY <1>4, <1>5, NextLoadType, NextUnused, NextCounted DEF UnusedReply, TransactionsReply
<1>6. CASE BeginLoad(addresses')
  BY <1>1, <1>3, <1>6 DEF BeginLoad, Idle
<1> QED
  BY <1>1, <1>2, <1>3, <1>5, <1>6
  DEF Next, vars, Start, Dispose, Reload, AddressesReply, AddressesFail, MempoolReply,
      UsedReply, LoadFail, Receive, Replaced, TypeOK

(* The page shows the chain, as long as it stood still during the load.    *)
THEOREM PageShowsTheChain == Spec => ShowsTheChain
<1>1. ASSUME Forgotten, [Next]_vars, load.at = "idle" PROVE Agrees'
  <2>1. load' = load \/ load' = [Idle EXCEPT !.at = "mempool"]
    BY <1>1 DEF Next, vars, Start, Dispose, Reload, AddressesReply, AddressesFail, BeginLoad,
                MempoolReply, UnusedReply, UsedReply, TransactionsReply, LoadFail, Receive, Replaced
  <2> QED
    BY <1>1, <2>1, NothingKnown DEF Idle, Forgotten
<1>2. ASSUME TypeOK, NonePassedOver, [Next]_vars, used' = used, Agrees
      PROVE  /\ Agrees'
             /\ LoadEnds /\ timer = "on" =>
                  /\ Entries(page'.counted) = used \cap Entries(load.copied)
                  /\ page'.receive \in (Entries(load.copied) \ used) \cup {NoAddress}
  <2>1. CASE load' = load
    BY <1>2, <2>1, SameLoadAgrees DEF LoadEnds
  <2>2. CASE UnusedReply \/ TransactionsReply
    <3>1. PICK ld \in LoadType :
            /\ GoOn(ld) /\ ld.at = "info" /\ ld.copied = load.copied
            /\ Entries(ld.counted) \subseteq used /\ Entries(ld.unused) \cap used = {}
            /\ Covers(ld.copied, ld.unused, ld.counted, Position(ld))
      BY <1>2, <2>2, NextAgrees
    <3>2. CASE load' = ld
      BY <1>2, <3>1, <3>2 DEF Agrees, LoadEnds
    <3>3. CASE Position(ld) = Len(ld.copied) /\ EndLoad(ld)
      <4>1. Agrees'
        BY <3>3, NothingKnown DEF EndLoad, Idle
      <4> QED
        BY <1>2, <3>1, <3>3, <4>1, EndShows
    <3> QED
      BY <3>1, <3>2, <3>3 DEF GoOn
  <2>3. CASE MempoolReply
    BY <1>2, <2>3 DEF MempoolReply, TypeOK, Agrees, LoadEnds
  <2>4. CASE UsedReply
    <3>1. /\ load'.copied = load.copied /\ load'.unused = load.unused
          /\ load'.counted = load.counted /\ load'.at = "transactions"
          /\ Current \in used
      BY <1>2, <2>4 DEF UsedReply, TypeOK
    <3>2. Current' = Current
      BY <3>1 DEF Current, Position
    <3> QED
      BY <1>2, <3>1, <3>2 DEF Agrees, LoadEnds
  <2>5. CASE LoadFail
    <3>1. failures' # failures
      BY <1>2, <2>5, BoundAssumption DEF LoadFail, TypeOK
    <3> QED
      BY <2>5, <3>1, NothingKnown DEF LoadFail, LoadEnds, Idle
  <2>6. CASE BeginLoad(addresses')
    <3>1. load' = load \/ load' = [Idle EXCEPT !.at = "mempool"]
      BY <2>6 DEF BeginLoad
    <3>2. CASE load' = [Idle EXCEPT !.at = "mempool"]
      BY <3>2, NothingKnown DEF Idle, LoadEnds
    <3> QED
      BY <2>1, <3>1, <3>2
  <2> QED
    BY <1>2, <2>1, <2>2, <2>3, <2>4, <2>5, <2>6
    DEF Next, vars, Start, Dispose, Reload, AddressesReply, AddressesFail, Receive, Replaced
<1>3. LoaderInv => TypeOK
  BY DEF LoaderInv
<1>4. LoaderInv /\ NonePassedOver /\ Forgotten /\ [Next]_vars =>
        [/\ load.at = "idle" => Agrees'
         /\ used' = used /\ Agrees =>
              /\ Agrees'
              /\ LoadEnds /\ timer = "on" =>
                   /\ Entries(page'.counted) = used \cap Entries(load.copied)
                   /\ page'.receive \in (Entries(load.copied) \ used) \cup {NoAddress}]_vars
  BY <1>1, <1>2, <1>3
<1>5. Init => Forgotten
  BY DEF Init, Forgotten
<1>6. LoaderInv /\ Forgotten /\ [Next]_vars => Forgotten'
  BY <1>3, ForgottenStep
<1> QED
  BY <1>4, <1>5, <1>6, LoaderInvariant, LoadPassesOverNone, PTL DEF Spec, ShowsTheChain


=============================================================================
