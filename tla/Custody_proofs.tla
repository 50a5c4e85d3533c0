---------------------------- MODULE Custody_proofs ----------------------------
(***************************************************************************)
(* That a wallet's keys stay together and within reach, for any number of  *)
(* wallets and passwords, wherever the app is killed and whatever page is  *)
(* left.  The writes that nobody awaits are a queue of whole wallets, in   *)
(* the order of their four values: what is stored is a whole wallet, or    *)
(* the beginning of the one whose remaining values are next, unless writes *)
(* of a wallet over another were cut.                                      *)
(***************************************************************************)
EXTENDS Custody, SequenceTheorems, TLAPS

-----------------------------------------------------------------------------
EmptyPages == {"off", "home", "loadingLocal", "noLocal", "noLocalFoundRemote"}
ReadPages == {"localNeedDecrypting", "localFailedDecryption"}
OpenedPages == {"localDecryptedNeedRemote", "loadingRemote"}
SetupPages == {"readyForBackup", "backupLost"} \cup BackingUp
WalletPages == {"wallet", "receiving", "offering", "recovery", "walletPassword"}

(* The wallets whose second seed is, or was, in the account's folder.      *)
Deposits == userFiles \cup deleted
Held(t) == t.text \in Deposits
HeldOrAbsent(t) == t = Absent \/ Held(t)

(* Every text outside a setup is of a wallet that was deposited.           *)
Deposited ==
  /\ HeldOrAbsent(stored["firstMnemonic"]) /\ HeldOrAbsent(stored["secondDescriptor"])
  /\ \A n \in DOMAIN pending :
       pending[n][1] \in {"firstMnemonic", "secondDescriptor"} => Held(pending[n][2])
  /\ \A copy \in {companion, companionRemote, offer} :
       HeldOrAbsent(copy.first) /\ HeldOrAbsent(copy.descriptor)
  /\ userFiles # {} => userFolder

(* The queue of writes: whole wallets and flags, one after another.        *)
Starts(key) == key \in {"firstMnemonic", "companionDevice"}
Ends(key) == key \in {"remoteProvider", "companionDevice"}
Follows(write, next) ==
  /\ write[1] = "firstMnemonic" => next[1] = "secondDescriptor" /\ (~cut => next[2] = write[2])
  /\ write[1] = "secondDescriptor" => /\ next[1] = "remoteAccountId"
                                      /\ next[2].password \in {write[2].password, NoPassword}
  /\ write[1] = "remoteAccountId" => next[1] = "remoteProvider"
  /\ Ends(write[1]) => Starts(next[1])
Chained(queue) ==
  /\ \A n \in DOMAIN queue : queue[n][2] # Absent
  /\ \A n \in DOMAIN queue : n + 1 \in DOMAIN queue => Follows(queue[n], queue[n + 1])
  /\ queue # << >> => Ends(queue[Len(queue)][1])
HasLast(queue) == \A key \in Keys :
  Queued(queue, key) # {} => \E n \in Queued(queue, key) : \A m \in Queued(queue, key) : m <= n
InOrder == Chained(pending) /\ HasLast(pending)

(* What is stored is the beginning of the wallet whose next value is first *)
(* in the queue, or a whole wallet, or the beginning of one that was cut.  *)
NextKey == IF pending = << >> THEN "firstMnemonic" ELSE Head(pending)[1]
SamePair == ~cut => stored["secondDescriptor"] = stored["firstMnemonic"]
SameAccount ==
  stored["remoteAccountId"].password \in {stored["secondDescriptor"].password, NoPassword}
Whole == SamePair /\ SameAccount
Behind ==
  /\ NextKey = "secondDescriptor" =>
       stored["firstMnemonic"] # Absent /\ (~cut => Head(pending)[2] = stored["firstMnemonic"])
  /\ NextKey = "remoteAccountId" =>
       /\ stored["firstMnemonic"] # Absent /\ stored["secondDescriptor"] # Absent /\ SamePair
       /\ Head(pending)[2].password \in {stored["secondDescriptor"].password, NoPassword}
  /\ NextKey = "remoteProvider" =>
       /\ stored["firstMnemonic"] # Absent /\ stored["secondDescriptor"] # Absent
       /\ stored["remoteAccountId"] # Absent /\ Whole
  /\ stored["remoteProvider"] # Absent => Complete /\ (Starts(NextKey) /\ ~cut => Whole)

(* A copy is of one wallet, sealed with one password.                      *)
CopiesWhole == ~cut => \A copy \in {companion, companionRemote, offer} : copy.descriptor = copy.first

(* The storage as it will be, and what a page that has read it holds.      *)
Kept == Settled(stored, pending)
Read ==
  /\ \A key \in WalletKeys : Kept[key] # Absent
  /\ memory.first = Kept["firstMnemonic"] /\ memory.descriptor = Kept["secondDescriptor"]
  /\ memory.given = Kept["remoteAccountId"].password

(* What the open page holds: outside a setup, texts that were deposited.   *)
HeldMemory == page \notin SetupPages => HeldOrAbsent(memory.first) /\ HeldOrAbsent(memory.descriptor)
MemoryKept ==
  /\ page \in EmptyPages => memory = NoKeys
  /\ page \in ReadPages =>
       /\ memory.first # Absent /\ memory.descriptor # Absent
       /\ ~cut => memory.descriptor = memory.first
       /\ ~cut /\ ~overtaken => Read
  /\ page \in OpenedPages /\ memory.first # Absent /\ ~cut =>
       /\ memory.descriptor.text = memory.first.text
       /\ ~overtaken => HeldIn(Kept) = memory.first.text
  /\ page \in {"wallet", "receiving", "offering"} => memory.first # Absent
  /\ page \in WalletPages /\ memory.first # Absent /\ ~cut =>
       /\ memory.first.text = memory.second /\ memory.descriptor.text = memory.second
       /\ ~overtaken => HeldIn(Kept) = memory.second

(* A setup holds one plain wallet, and its steps come one after another,   *)
(* on its page or after it was left.                                       *)
SetupMemory ==
  page \in SetupPages =>
    /\ memory.second \in made
    /\ memory = KeyArguments(Plain(memory.second), Plain(memory.second), memory.second, NoPassword)
SetupSteps ==
  /\ left # NoTask => left.page \in BackingUp /\ left.wallet \in made
  /\ page = "backingUpUser" \/ left.page = "backingUpUser" => userFolder
  /\ page = "backingUpLocally" => memory.second \in Deposits
  /\ left.page = "backingUpLocally" => left.wallet \in Deposits

PageInv == HeldMemory /\ MemoryKept /\ SetupMemory /\ SetupSteps /\ KnownWalletStarts

CustodyInv == TypeOK /\ Deposited /\ InOrder /\ Behind /\ CopiesWhole /\ PageInv

-----------------------------------------------------------------------------
(* Queues of writes.  A key not in the queue has the value stored, another *)
(* the value of its last write.                                            *)
Writes == Keys \X Text

LEMMA SettledNone ==
  ASSUME NEW storage, NEW queue, NEW key \in Keys, Queued(queue, key) = {}
  PROVE  Settled(storage, queue)[key] = storage[key]
BY DEF Settled

IsLast(queue, key, n) == n \in Queued(queue, key) /\ \A m \in Queued(queue, key) : m <= n

LEMMA SettledLast ==
  ASSUME NEW storage, NEW queue \in Seq(Writes), NEW key \in Keys, NEW n, IsLast(queue, key, n)
  PROVE  Settled(storage, queue)[key] = queue[n][2]
<1> USE DEF IsLast
<1>1. DOMAIN queue \subseteq Nat /\ Queued(queue, key) \subseteq Nat
  BY DEF Queued
<1>2. (CHOOSE k \in Queued(queue, key) : \A m \in Queued(queue, key) : m <= k) = n
  <2>1. \A k \in Queued(queue, key) : (\A m \in Queued(queue, key) : m <= k) => k = n
    <3>1. ASSUME NEW k \in Queued(queue, key), \A m \in Queued(queue, key) : m <= k PROVE k = n
      <4>1. k <= n /\ n <= k /\ k \in Nat /\ n \in Nat
        BY <1>1, <3>1
      <4> QED
        BY <4>1
    <3> QED
      BY <3>1
  <2> QED
    BY <2>1
<1> QED
  BY <1>2 DEF Settled

(* Making the first write settles nothing new.                             *)
LEMMA SettledTail ==
  ASSUME NEW storage \in [Keys -> Text], NEW queue \in Seq(Writes), queue # << >>, HasLast(queue),
         NEW storage2, storage2 = [storage EXCEPT ![Head(queue)[1]] = Head(queue)[2]]
  PROVE  HasLast(Tail(queue)) /\ Settled(storage2, Tail(queue)) = Settled(storage, queue)
<1>0. PICK rest \in Seq(Writes) : rest = Tail(queue)
  BY HeadTailProperties
<1>1. /\ Head(queue) = queue[1] /\ Head(queue) \in Writes
      /\ DOMAIN queue = 1..Len(queue) /\ DOMAIN rest = 1..(Len(queue) - 1) /\ Len(queue) \in Nat
      /\ \A n \in 1..(Len(queue) - 1) : rest[n] = queue[n + 1]
  BY <1>0, HeadTailProperties
<1>2. \A key \in Keys, n \in Nat \ {0} : n \in Queued(rest, key) <=> n + 1 \in Queued(queue, key)
  BY <1>1 DEF Queued
<1>3. \A key \in Keys : 1 \in Queued(queue, key) <=> key = Head(queue)[1]
  BY <1>1 DEF Queued
<1>4. \A key \in Keys : Queued(queue, key) \subseteq Nat \ {0} /\ Queued(rest, key) \subseteq Nat \ {0}
  BY <1>1 DEF Queued
<1>5. ASSUME NEW key \in Keys, Queued(rest, key) # {}
      PROVE  \E n \in Queued(rest, key) :
               /\ \A m \in Queued(rest, key) : m <= n
               /\ \A m \in Queued(queue, key) : m <= n + 1
  <2>1. PICK k \in Queued(rest, key) : TRUE
    BY <1>5
  <2>2. k \in Nat \ {0} /\ k + 1 \in Queued(queue, key)
    BY <1>2, <1>4, <2>1
  <2>3. PICK n \in Queued(queue, key) : \A m \in Queued(queue, key) : m <= n
    BY <2>2 DEF HasLast
  <2>4. n \in Nat \ {0} /\ k + 1 <= n
    BY <1>4, <2>2, <2>3
  <2>5. n - 1 \in Nat \ {0} /\ (n - 1) + 1 = n
    BY <2>2, <2>4
  <2>6. n - 1 \in Queued(rest, key)
    BY <1>2, <2>3, <2>5
  <2>7. \A m \in Queued(rest, key) : m <= n - 1
    <3>1. ASSUME NEW m \in Queued(rest, key) PROVE m <= n - 1
      <4>1. m \in Nat \ {0} /\ m + 1 <= n
        BY <1>2, <1>4, <2>3, <3>1
      <4> QED
        BY <2>4, <4>1
    <3> QED
      BY <3>1
  <2> QED
    BY <2>3, <2>5, <2>6, <2>7
<1>6. HasLast(rest)
  BY <1>5 DEF HasLast
<1>7. ASSUME NEW key \in Keys
      PROVE  Settled(storage2, rest)[key] = Settled(storage, queue)[key]
  <2>1. CASE Queued(rest, key) # {}
    <3>1. PICK n \in Queued(rest, key) :
            /\ \A m \in Queued(rest, key) : m <= n
            /\ \A m \in Queued(queue, key) : m <= n + 1
      BY <1>5, <2>1
    <3>2. n \in Nat \ {0} /\ n + 1 \in Queued(queue, key) /\ rest[n] = queue[n + 1]
      BY <1>1, <1>2, <1>4, <3>1 DEF Queued
    <3>3. Settled(storage2, rest)[key] = rest[n][2]
      BY <3>1, SettledLast DEF IsLast
    <3>4. Settled(storage, queue)[key] = queue[n + 1][2]
      BY <3>1, <3>2, SettledLast DEF IsLast
    <3> QED
      BY <3>2, <3>3, <3>4
  <2>2. CASE Queued(rest, key) = {} /\ key # Head(queue)[1]
    <3>1. Queued(queue, key) = {}
      <4>1. ASSUME NEW n \in Queued(queue, key) PROVE FALSE
        <5>1. n \in Nat \ {0} /\ n # 1
          BY <1>3, <1>4, <2>2, <4>1
        <5>2. n - 1 \in Nat \ {0} /\ (n - 1) + 1 = n
          BY <5>1
        <5>3. n - 1 \in Queued(rest, key)
          BY <1>2, <4>1, <5>2
        <5> QED
          BY <2>2, <5>3
      <4> QED
        BY <4>1
    <3>2. storage2[key] = storage[key]
      BY <2>2
    <3> QED
      <4>1. Settled(storage2, rest)[key] = storage2[key]
        BY <2>2, SettledNone
      <4>2. Settled(storage, queue)[key] = storage[key]
        BY <3>1, SettledNone
      <4> QED
        BY <3>2, <4>1, <4>2
  <2>3. CASE Queued(rest, key) = {} /\ key = Head(queue)[1]
    <3>1. 1 \in Queued(queue, key)
      BY <1>3, <2>3
    <3>2. \A m \in Queued(queue, key) : m <= 1
      <4>1. ASSUME NEW m \in Queued(queue, key), m # 1 PROVE FALSE
        <5>1. m \in Nat \ {0}
          BY <1>4, <4>1
        <5>2. m - 1 \in Nat \ {0} /\ (m - 1) + 1 = m
          BY <4>1, <5>1
        <5>3. m - 1 \in Queued(rest, key)
          BY <1>2, <4>1, <5>2
        <5> QED
          BY <2>3, <5>3
      <4> QED
        BY <4>1
    <3>3. Settled(storage, queue)[key] = Head(queue)[2]
      BY <1>1, <3>1, <3>2, SettledLast DEF IsLast
    <3>4. storage2[key] = Head(queue)[2]
      BY <2>3
    <3> QED
      BY <2>3, <3>3, <3>4, SettledNone
  <2> QED
    BY <2>1, <2>2, <2>3
<1>8. Settled(storage2, Tail(queue)) = Settled(storage, queue)
  <2>1. Settled(storage2, rest) = [key \in Keys |-> Settled(storage2, rest)[key]]
    BY DEF Settled
  <2>2. Settled(storage, queue) = [key \in Keys |-> Settled(storage, queue)[key]]
    BY DEF Settled
  <2> QED
    BY <1>0, <1>7, <2>1, <2>2
<1> QED
  BY <1>0, <1>6, <1>8

(* Writes of different keys, put behind the queue, settle those keys.      *)
Distinct(more) == \A k, l \in DOMAIN more : more[k][1] = more[l][1] => k = l

LEMMA SettledConcat ==
  ASSUME NEW storage, NEW queue \in Seq(Writes), NEW more \in Seq(Writes), HasLast(queue),
         Distinct(more)
  PROVE  /\ HasLast(queue \o more)
         /\ \A k \in DOMAIN more : Settled(storage, queue \o more)[more[k][1]] = more[k][2]
         /\ \A key \in Keys : (\A k \in DOMAIN more : more[k][1] # key) =>
              Settled(storage, queue \o more)[key] = Settled(storage, queue)[key]
<1>a. PICK both \in Seq(Writes) : both = queue \o more
  BY ConcatProperties
<1>0. both \in Seq(Writes)
  OBVIOUS
<1>1. /\ both \in Seq(Writes) /\ Len(queue) \in Nat /\ Len(more) \in Nat
      /\ DOMAIN queue = 1..Len(queue) /\ DOMAIN more = 1..Len(more)
      /\ DOMAIN both = 1..(Len(queue) + Len(more))
  BY <1>a, ConcatProperties, LenProperties
<1>2. \A n \in 1..Len(queue) : n \in DOMAIN both /\ both[n] = queue[n]
  BY <1>a, <1>1, ConcatProperties
<1>3. \A k \in 1..Len(more) : Len(queue) + k \in DOMAIN both /\ both[Len(queue) + k] = more[k]
  BY <1>a, <1>1, ConcatProperties
<1>4. \A n \in DOMAIN both : n \in 1..Len(queue) \/ \E k \in 1..Len(more) : n = Len(queue) + k
  <2>1. ASSUME NEW n \in DOMAIN both, n \notin 1..Len(queue)
        PROVE  n - Len(queue) \in 1..Len(more) /\ n = Len(queue) + (n - Len(queue))
    BY <1>1, <2>1
  <2> QED
    BY <2>1
<1>5. ASSUME NEW k \in DOMAIN more
      PROVE  /\ Len(queue) + k \in Queued(both, more[k][1])
             /\ \A m \in Queued(both, more[k][1]) : m <= Len(queue) + k
  <2>1. Len(queue) + k \in Queued(both, more[k][1])
    BY <1>1, <1>3 DEF Queued
  <2>2. ASSUME NEW m \in Queued(both, more[k][1]) PROVE m <= Len(queue) + k
    <3>1. m \in DOMAIN both /\ both[m][1] = more[k][1]
      BY <2>2 DEF Queued
    <3>2. CASE m \in 1..Len(queue)
      BY <1>1, <3>2
    <3>3. ASSUME NEW l \in 1..Len(more), m = Len(queue) + l PROVE m <= Len(queue) + k
      <4>1. more[l][1] = more[k][1]
        BY <1>3, <3>1, <3>3
      <4>2. l = k
        BY <1>1, <4>1 DEF Distinct
      <4> QED
        BY <1>1, <3>3, <4>2
    <3> QED
      BY <1>4, <3>1, <3>2, <3>3
  <2> QED
    BY <2>1, <2>2
<1>6. ASSUME NEW k \in DOMAIN more PROVE Settled(storage, both)[more[k][1]] = more[k][2]
  <2>1. more[k][1] \in Keys
    BY <1>1 DEF Writes
  <2>2. Settled(storage, both)[more[k][1]] = both[Len(queue) + k][2]
    <3>1. IsLast(both, more[k][1], Len(queue) + k)
      BY <1>5 DEF IsLast
    <3> QED
      BY ONLY <1>0, <2>1, <3>1, SettledLast
  <2> QED
    BY <1>1, <1>3, <2>2
<1>7. ASSUME NEW key \in Keys, \A k \in DOMAIN more : more[k][1] # key
      PROVE  Queued(both, key) = Queued(queue, key)
  <2>1. ASSUME NEW n \in Queued(both, key) PROVE n \in Queued(queue, key)
    <3>1. n \in DOMAIN both /\ both[n][1] = key
      BY <2>1 DEF Queued
    <3>2. \A k \in 1..Len(more) : n # Len(queue) + k
      BY <1>1, <1>3, <1>7, <3>1
    <3>3. n \in 1..Len(queue)
      BY <1>4, <3>1, <3>2
    <3> QED
      BY <1>1, <1>2, <3>1, <3>3 DEF Queued
  <2>2. ASSUME NEW n \in Queued(queue, key) PROVE n \in Queued(both, key)
    BY <1>1, <1>2, <2>2 DEF Queued
  <2> QED
    BY <2>1, <2>2
<1>8. ASSUME NEW key \in Keys, \A k \in DOMAIN more : more[k][1] # key
      PROVE  Settled(storage, both)[key] = Settled(storage, queue)[key]
  <2>1. CASE Queued(queue, key) = {}
    <3>1. Queued(both, key) = {}
      BY <1>7, <1>8, <2>1
    <3>2. Settled(storage, both)[key] = storage[key]
      BY <3>1, SettledNone
    <3>3. Settled(storage, queue)[key] = storage[key]
      BY <2>1, SettledNone
    <3> QED
      BY <3>2, <3>3
  <2>2. CASE Queued(queue, key) # {}
    <3>1. PICK n : IsLast(queue, key, n)
      BY <2>2 DEF HasLast, IsLast
    <3>2. IsLast(both, key, n)
      BY <1>7, <1>8, <3>1 DEF IsLast
    <3>3. n \in 1..Len(queue)
      BY <1>1, <3>1 DEF Queued, IsLast
    <3>4. Settled(storage, both)[key] = both[n][2]
      BY ONLY <1>0, <1>8, <3>2, SettledLast
    <3>5. Settled(storage, queue)[key] = queue[n][2]
      BY <1>8, <3>1, SettledLast
    <3> QED
      BY <1>2, <3>3, <3>4, <3>5
  <2> QED
    BY <2>1, <2>2
<1>9. HasLast(both)
  <2>1. ASSUME NEW key \in Keys, Queued(both, key) # {}
        PROVE  \E n \in Queued(both, key) : \A m \in Queued(both, key) : m <= n
    <3>1. CASE \E k \in DOMAIN more : more[k][1] = key
      <4>1. PICK k \in DOMAIN more : more[k][1] = key
        BY <3>1
      <4> QED
        BY <1>5, <4>1
    <3>2. CASE ~(\E k \in DOMAIN more : more[k][1] = key)
      BY <1>7, <2>1, <3>2 DEF HasLast
    <3> QED
      BY <3>1, <3>2
  <2> QED
    BY <2>1 DEF HasLast
<1> QED
  BY <1>a, <1>6, <1>8, <1>9

(* A queue that ends with a whole wallet or a flag can be followed by one  *)
(* that begins with either.                                                *)
LEMMA ChainedConcat ==
  ASSUME NEW queue \in Seq(Writes), NEW more \in Seq(Writes), Chained(queue), Chained(more),
         more # << >>, Starts(more[1][1])
  PROVE  Chained(queue \o more)
<1> DEFINE L == Len(queue)
           M == Len(more)
<1>1. PICK both \in Seq(Writes) : both = queue \o more
  BY ConcatProperties
<1>2. /\ L \in Nat /\ M \in Nat \ {0} /\ Len(both) = L + M
      /\ DOMAIN queue = 1..L /\ DOMAIN more = 1..M /\ DOMAIN both = 1..(L + M)
  BY <1>1, ConcatProperties, LenProperties, EmptySeq
<1>3. \A n \in 1..L : both[n] = queue[n]
  BY <1>1, <1>2, ConcatProperties
<1>4. \A k \in 1..M : both[L + k] = more[k]
  BY <1>1, <1>2, ConcatProperties
<1> HIDE DEF L, M
<1>5. \A n \in DOMAIN both : n \in 1..L \/ \E k \in 1..M : n = L + k
  <2>1. ASSUME NEW n \in DOMAIN both, n \notin 1..L PROVE n - L \in 1..M /\ n = L + (n - L)
    BY <1>2, <2>1
  <2> QED
    BY <2>1
<1>6. ASSUME NEW n \in DOMAIN both PROVE both[n][2] # Absent
  <2>1. CASE n \in 1..L
    BY <1>2, <1>3, <2>1 DEF Chained
  <2>2. ASSUME NEW k \in 1..M, n = L + k PROVE both[n][2] # Absent
    BY <1>2, <1>4, <2>2 DEF Chained
  <2> QED
    BY <1>5, <1>6, <2>1, <2>2
<1>7. ASSUME NEW n \in DOMAIN both, n + 1 \in DOMAIN both PROVE Follows(both[n], both[n + 1])
  <2>1. CASE n \in 1..L /\ n + 1 \in 1..L
    BY <1>2, <1>3, <2>1 DEF Chained
  <2>2. CASE n \in 1..L /\ n + 1 \notin 1..L
    <3>1. n = L /\ n + 1 = L + 1 /\ 1 \in 1..M /\ L # 0
      BY <1>2, <2>2
    <3>2. both[n] = queue[L] /\ both[n + 1] = more[1]
      BY <1>3, <1>4, <2>2, <3>1
    <3>3. queue # << >>
      BY <3>1, <2>2, <1>2
    <3>4. Ends(queue[L][1])
      BY <3>3 DEF Chained, L
    <3> QED
      BY <3>2, <3>4 DEF Follows, Ends
  <2>3. ASSUME NEW k \in 1..M, n = L + k PROVE Follows(both[n], both[n + 1])
    <3>1. k + 1 \in 1..M /\ n + 1 = L + (k + 1)
      BY <1>2, <1>7, <2>3
    <3>2. both[n] = more[k] /\ both[n + 1] = more[k + 1]
      BY <1>4, <2>3, <3>1
    <3> QED
      BY <1>2, <2>3, <3>1, <3>2 DEF Chained
  <2> QED
    BY <1>5, <1>7, <2>1, <2>2, <2>3
<1>8. Ends(both[Len(both)][1])
  <2>1. Len(both) = L + M /\ M \in 1..M
    BY <1>2
  <2>2. both[L + M] = more[M]
    BY <1>4, <2>1
  <2>3. Ends(more[M][1])
    BY DEF Chained, M
  <2> QED
    BY <2>1, <2>2, <2>3
<1> QED
  BY <1>1, <1>6, <1>7, <1>8 DEF Chained

-----------------------------------------------------------------------------
(* A sealed text is of the wallet that the text was of.                    *)
LEMMA Encrypted ==
  ASSUME NEW password \in Passwords \cup {NoPassword}, NEW t \in Text, t.text # NoWallet
  PROVE  /\ encryptLeafyData(password, t) \in Text
         /\ encryptLeafyData(password, t).text = t.text
         /\ encryptLeafyData(password, t).password =
              IF password = NoPassword THEN t.password ELSE password
         /\ encryptLeafyData(password, t) # Absent
BY DEF encryptLeafyData, Text, Absent

(* A plain word of the storage is a text, and there.                       *)
LEMMA PlainWords ==
  \A word \in Words : Plain(word) \in Text /\ Plain(word) # Absent /\ word # NoWallet
                      /\ Plain(word).text = word /\ Plain(word).password = NoPassword
BY WordsAssumption DEF Plain, Text, Absent

(* The flag of a companion is a queue of its own.                          *)
LEMMA Flag ==
  ASSUME NEW word \in Words
  PROVE  /\ << <<"companionDevice", Plain(word)>> >> \in Seq(Writes)
         /\ Len(<< <<"companionDevice", Plain(word)>> >>) = 1
         /\ << <<"companionDevice", Plain(word)>> >>[1] = <<"companionDevice", Plain(word)>>
         /\ Chained(<< <<"companionDevice", Plain(word)>> >>)
         /\ Distinct(<< <<"companionDevice", Plain(word)>> >>)
<1>1. PICK e \in Writes : /\ e = <<"companionDevice", Plain(word)>>
                          /\ e[1] = "companionDevice" /\ e[2] # Absent
  <2>1. <<"companionDevice", Plain(word)>> \in Writes
    BY PlainWords DEF Writes, Keys
  <2> QED
    BY <2>1, PlainWords
<1>2. << e >> \in Seq(Writes) /\ Len(<< e >>) = 1 /\ << e >>[1] = e /\ DOMAIN << e >> = 1..1
  OBVIOUS
<1>3. Chained(<< e >>)
  BY <1>1, <1>2 DEF Chained, Ends
<1>4. Distinct(<< e >>)
  BY <1>2 DEF Distinct
<1> QED
  BY <1>1, <1>2, <1>3, <1>4

(* The four writes of a wallet are a queue of their own, of that wallet.   *)
LEMMA Block ==
  ASSUME NEW password \in Passwords \cup {NoPassword}, NEW first \in Text, NEW descriptor \in Text,
         first.text # NoWallet, descriptor.text # NoWallet, ~cut => descriptor = first,
         NEW block, block = persistLocally(password, first, descriptor)
  PROVE  /\ block \in Seq(Writes) /\ Len(block) = 4 /\ Chained(block) /\ Distinct(block)
         /\ block[1] = <<"firstMnemonic", encryptLeafyData(password, first)>>
         /\ block[2] = <<"secondDescriptor", encryptLeafyData(password, descriptor)>>
         /\ block[3] = <<"remoteAccountId", encryptLeafyData(password, Plain("account"))>>
         /\ block[4] = <<"remoteProvider", Plain("google")>>
<1>0. "account" \in Words /\ "google" \in Words
  BY DEF Words
<1>1. PICK v1 \in Text : v1 = encryptLeafyData(password, first) /\ v1 # Absent
                         /\ v1.password = IF password = NoPassword THEN first.password ELSE password
  BY Encrypted
<1>2. PICK v2 \in Text : v2 = encryptLeafyData(password, descriptor) /\ v2 # Absent
                         /\ v2.password = IF password = NoPassword THEN descriptor.password ELSE password
  BY Encrypted
<1>3. PICK v3 \in Text : v3 = encryptLeafyData(password, Plain("account")) /\ v3 # Absent
                         /\ v3.password = password
  <2>1. PICK t \in Text : t = Plain("account") /\ t.text # NoWallet /\ t.password = NoPassword
    BY <1>0, PlainWords
  <2>2. /\ encryptLeafyData(password, t) \in Text /\ encryptLeafyData(password, t) # Absent
        /\ encryptLeafyData(password, t).password = IF password = NoPassword THEN NoPassword ELSE password
    BY <2>1, Encrypted
  <2> QED
    BY <2>1, <2>2
<1>4. PICK v4 \in Text : v4 = Plain("google") /\ v4 # Absent
  BY <1>0, PlainWords
<1>5. ~cut => v2 = v1
  BY <1>1, <1>2
<1>6. PICK e1 \in Writes, e2 \in Writes, e3 \in Writes, e4 \in Writes :
        /\ e1 = <<"firstMnemonic", v1>> /\ e1[1] = "firstMnemonic" /\ e1[2] = v1
        /\ e2 = <<"secondDescriptor", v2>> /\ e2[1] = "secondDescriptor" /\ e2[2] = v2
        /\ e3 = <<"remoteAccountId", v3>> /\ e3[1] = "remoteAccountId" /\ e3[2] = v3
        /\ e4 = <<"remoteProvider", v4>> /\ e4[1] = "remoteProvider" /\ e4[2] = v4
  <2>1. /\ <<"firstMnemonic", v1>> \in Writes /\ <<"secondDescriptor", v2>> \in Writes
        /\ <<"remoteAccountId", v3>> \in Writes /\ <<"remoteProvider", v4>> \in Writes
    BY DEF Writes, Keys, WalletKeys
  <2> QED
    BY <2>1
<1>7. block = <<e1, e2, e3, e4>>
  BY <1>1, <1>2, <1>3, <1>4, <1>6 DEF persistLocally
<1>8. /\ block \in Seq(Writes) /\ Len(block) = 4 /\ DOMAIN block = 1..4
      /\ block[1] = e1 /\ block[2] = e2 /\ block[3] = e3 /\ block[4] = e4
  BY <1>7
<1>9. Chained(block)
  <2>1. \A n \in DOMAIN block : n \in {1, 2, 3, 4}
    BY <1>8
  <2>2. \A n \in DOMAIN block : block[n][2] # Absent
    BY <1>1, <1>2, <1>3, <1>4, <1>6, <1>8, <2>1
  <2>3. Follows(e1, e2)
    BY <1>5, <1>6 DEF Follows, Ends
  <2>4. Follows(e2, e3)
    BY <1>2, <1>3, <1>6 DEF Follows, Ends
  <2>5. Follows(e3, e4)
    BY <1>6 DEF Follows, Ends
  <2>6. ASSUME NEW n \in DOMAIN block, n + 1 \in DOMAIN block PROVE Follows(block[n], block[n + 1])
    <3>1. n \in {1, 2, 3}
      BY <1>8, <2>6
    <3> QED
      BY <1>8, <2>3, <2>4, <2>5, <3>1
  <2>7. Ends(block[Len(block)][1])
    BY <1>6, <1>8 DEF Ends
  <2> QED
    BY <2>2, <2>6, <2>7 DEF Chained
<1>10. Distinct(block)
  <2>1. \A n \in DOMAIN block : n \in {1, 2, 3, 4}
    BY <1>8
  <2> QED
    BY <1>6, <1>8, <2>1 DEF Distinct
<1> QED
  BY <1>1, <1>2, <1>3, <1>4, <1>6, <1>8, <1>9, <1>10


-----------------------------------------------------------------------------
(* The invariant holds at the start.                                       *)
LEMMA Nothing ==
  /\ Absent \in Secret /\ Absent \in Text /\ NoKeys \in Arguments /\ NoCopy \in Copy
  /\ NoCopy.first = Absent /\ NoCopy.descriptor = Absent
  /\ NoKeys.first = Absent /\ NoKeys.descriptor = Absent /\ NoKeys.second = NoWallet
  /\ NoTask \in [page : BackingUp \cup {"none"}, wallet : Wallets \cup {NoWallet}]
  /\ NoTask.page = "none" /\ "none" \notin BackingUp
BY DEF Absent, Secret, Text, NoKeys, KeyArguments, Arguments, NoCopy, Copy, NoTask, BackingUp

LEMMA InitInv == Init => CustodyInv
<1> SUFFICES ASSUME Init PROVE CustodyInv
  OBVIOUS
<1>1. TypeOK
  <2>1. stored \in [Keys -> Text] /\ pending \in Seq(Keys \X Text)
    BY Nothing DEF Init
  <2>2. page \in Pages
    BY DEF Init, Pages
  <2>3. \A copy \in {companion, companionRemote, offer} :
          copy \in Copy /\ (copy.first = Absent <=> copy.descriptor = Absent)
    BY Nothing DEF Init
  <2> QED
    BY Nothing, <2>1, <2>2, <2>3 DEF Init, TypeOK
<1>2. \A key \in Keys : stored[key] = Absent
  BY DEF Init
<1>3. \A copy \in {companion, companionRemote, offer} : copy.first = Absent /\ copy.descriptor = Absent
  BY Nothing DEF Init
<1>4. Deposited
  BY Nothing, <1>2, <1>3 DEF Init, Deposited, HeldOrAbsent, Keys, WalletKeys
<1>5. InOrder
  BY DEF Init, InOrder, Chained, HasLast, Queued
<1>6. Behind
  BY <1>2 DEF Init, Behind, NextKey, Keys, WalletKeys
<1>7. CopiesWhole
  BY <1>3 DEF CopiesWhole
<1>8. HeldMemory /\ SetupMemory /\ SetupSteps
  BY Nothing DEF Init, HeldMemory, HeldOrAbsent, SetupMemory, SetupSteps, SetupPages, BackingUp
<1>9. MemoryKept /\ KnownWalletStarts
  BY DEF Init, MemoryKept, EmptyPages, ReadPages, OpenedPages, WalletPages, KnownWalletStarts
<1> QED
  BY <1>1, <1>4, <1>5, <1>6, <1>7, <1>8, <1>9 DEF CustodyInv, PageInv

-----------------------------------------------------------------------------
(* What a step leaves of the account: wallets are made and deposited, and  *)
(* what was deposited is kept or deleted.                                  *)
AccountGrows ==
  /\ made \subseteq made' /\ made' \subseteq Wallets /\ appFiles' \subseteq made'
  /\ Deposits \subseteq Deposits' /\ Deposits' \subseteq made' /\ deleted \subseteq deleted'
  /\ userFolder' \in BOOLEAN /\ (userFiles' # {} => userFolder')
PageTypes ==
  /\ page \in Pages /\ memory \in Arguments /\ overtaken \in BOOLEAN
  /\ left \in [page : BackingUp \cup {"none"}, wallet : Wallets \cup {NoWallet}]

LEMMA AccountSame ==
  ASSUME CustodyInv, UNCHANGED <<made, userFolder, userFiles, deleted>>, appFiles' \subseteq made
  PROVE  AccountGrows
BY DEF CustodyInv, TypeOK, Deposited, AccountGrows, Deposits

LEMMA TypesOfPage == CustodyInv => PageTypes
BY DEF CustodyInv, TypeOK, PageTypes

LEMMA HeldGrows ==
  ASSUME AccountGrows, NEW t, HeldOrAbsent(t) PROVE (t = Absent \/ t.text \in Deposits')
BY DEF AccountGrows, HeldOrAbsent, Held

(* A copy of one wallet that is deposited, or none.                        *)
WholeCopy(copy) ==
  /\ copy \in Copy /\ (copy.first = Absent <=> copy.descriptor = Absent)
  /\ HeldOrAbsent(copy.first) /\ HeldOrAbsent(copy.descriptor)
  /\ ~cut => copy.descriptor = copy.first

LEMMA CopiesAreWhole ==
  CustodyInv => /\ WholeCopy(companion) /\ WholeCopy(companionRemote) /\ WholeCopy(offer)
                /\ WholeCopy(NoCopy)
BY Nothing DEF CustodyInv, TypeOK, Deposited, CopiesWhole, WholeCopy, HeldOrAbsent

(* A step that leaves the storage alone: each copy is one that was, or     *)
(* another whole one.                                                      *)
LEMMA Grown ==
  ASSUME CustodyInv, UNCHANGED <<stored, pending, cut>>, AccountGrows,
         WholeCopy(companion'), WholeCopy(companionRemote'), WholeCopy(offer'),
         PageTypes', PageInv'
  PROVE  CustodyInv'
<1>1. TypeOK'
  BY DEF CustodyInv, TypeOK, PageTypes, AccountGrows, WholeCopy, Deposits
<1>2. Deposited'
  BY DEF CustodyInv, Deposited, HeldOrAbsent, Held, AccountGrows, WholeCopy
<1>3. InOrder'
  BY DEF CustodyInv, InOrder, Chained, Follows
<1>4. Behind'
  BY DEF CustodyInv, Behind, NextKey, Complete, SamePair, SameAccount, Whole
<1>5. CopiesWhole'
  BY DEF CopiesWhole, WholeCopy
<1> QED
  BY <1>1, <1>2, <1>3, <1>4, <1>5 DEF CustodyInv

(* A page that is left as it is, while the account grows.                  *)
LEMMA SamePage ==
  ASSUME CustodyInv, AccountGrows, UNCHANGED <<page, memory, cut>>, Kept' = Kept,
         overtaken' = overtaken \/ overtaken' = (memory.first # Absent), SetupSteps'
  PROVE  PageInv'
<1>1. PageInv
  BY DEF CustodyInv
<1>2. HeldMemory'
  BY <1>1 DEF PageInv, HeldMemory, AccountGrows, HeldOrAbsent, Held
<1>3. SetupMemory'
  BY <1>1 DEF PageInv, SetupMemory, AccountGrows
<1>4. KnownWalletStarts'
  BY <1>1 DEF PageInv, KnownWalletStarts, AccountGrows
<1>5. MemoryKept'
  <2>1. overtaken' = overtaken \/ overtaken' \/ memory.first = Absent
    OBVIOUS
  <2>2. Read => Read'
    BY DEF Read
  <2> QED
    BY <1>1, <2>1, <2>2 DEF PageInv, MemoryKept, WalletPages, OpenedPages, ReadPages, EmptyPages
<1> QED
  BY <1>2, <1>3, <1>4, <1>5 DEF PageInv

(* How far the setups have got is not changed by a page outside them.      *)
LEMMA OutsideSetup ==
  ASSUME CustodyInv, AccountGrows, page' \notin SetupPages, left' = left,
         userFolder' = userFolder
  PROVE  SetupMemory' /\ SetupSteps'
<1>1. SetupSteps
  BY DEF CustodyInv, PageInv
<1>2. SetupMemory'
  BY DEF SetupMemory
<1>3. page' # "backingUpUser" /\ page' # "backingUpLocally"
  BY DEF SetupPages, BackingUp
<1>4. SetupSteps'
  BY <1>1, <1>3 DEF SetupSteps, AccountGrows
<1> QED
  BY <1>2, <1>4

(* A step that turns the page, to one outside the setup, and at most       *)
(* writes to the application directory.                                    *)
LEMMA Turned ==
  ASSUME CustodyInv, KeepPhone, UNCHANGED <<userFolder, userFiles, deleted, companionVars>>,
         appFiles' \subseteq made, offer' \in {offer, NoCopy}, overtaken' \in BOOLEAN,
         page' \in Pages \ SetupPages, memory' \in Arguments,
         HeldOrAbsent(memory'.first), HeldOrAbsent(memory'.descriptor),
         MemoryKept', KnownWalletStarts'
  PROVE  CustodyInv'
<1>1. AccountGrows /\ UNCHANGED <<stored, pending, cut>> /\ left' = left
  BY AccountSame DEF KeepPhone
<1>2. WholeCopy(companion') /\ WholeCopy(companionRemote') /\ WholeCopy(offer')
  BY CopiesAreWhole DEF companionVars
<1>3. PageTypes'
  BY <1>1 DEF CustodyInv, TypeOK, PageTypes
<1>4. HeldMemory'
  BY <1>1 DEF HeldMemory, AccountGrows, HeldOrAbsent, Held
<1>5. SetupMemory' /\ SetupSteps'
  BY <1>1, OutsideSetup
<1> QED
  BY <1>1, <1>2, <1>3, <1>4, <1>5, Grown DEF PageInv

(* What the pages hold, when only the storage's future matters.            *)
LEMMA KeptSame == ASSUME KeepPhone PROVE Kept' = Kept
BY DEF KeepPhone, Kept

LEMMA NothingQueued ==
  ASSUME CustodyInv, pending = << >> PROVE Kept = stored
<1>1. \A key \in Keys : Queued(pending, key) = {}
  BY DEF Queued
<1>2. Kept = [key \in Keys |-> stored[key]]
  BY <1>1 DEF Kept, Settled
<1> QED
  BY <1>2 DEF CustodyInv, TypeOK

(* The page goes back home, or the app is closed: nothing is held.         *)
LEMMA GoneHome ==
  ASSUME CustodyInv, page' \in {"home", "off"}, memory' = NoKeys
  PROVE  /\ page' \in Pages \ SetupPages /\ memory' \in Arguments
         /\ HeldOrAbsent(memory'.first) /\ HeldOrAbsent(memory'.descriptor)
         /\ MemoryKept' /\ KnownWalletStarts'
<1>1. /\ page' \in Pages \ SetupPages /\ memory' \in Arguments
      /\ HeldOrAbsent(memory'.first) /\ HeldOrAbsent(memory'.descriptor)
  BY Nothing DEF Pages, SetupPages, BackingUp, HeldOrAbsent
<1>2. MemoryKept' /\ KnownWalletStarts'
  BY DEF MemoryKept, EmptyPages, ReadPages, OpenedPages, WalletPages, KnownWalletStarts
<1> QED
  BY <1>1, <1>2

(* The texts of a wallet in the storage are secrets of a wallet that was   *)
(* deposited.                                                              *)
LEMMA StoredSecrets ==
  ASSUME CustodyInv
  PROVE  /\ stored["firstMnemonic"] \in Secret /\ stored["secondDescriptor"] \in Secret
         /\ \A key \in Keys : stored[key] \in Text
         /\ HeldOrAbsent(stored["firstMnemonic"]) /\ HeldOrAbsent(stored["secondDescriptor"])
         /\ Deposits \subseteq made /\ made \subseteq Wallets /\ NoWallet \notin Deposits
         /\ NoWallet \notin made
<1>1. /\ stored["firstMnemonic"] \in Text /\ stored["secondDescriptor"] \in Text
      /\ \A key \in Keys : stored[key] \in Text
  BY DEF CustodyInv, TypeOK, Keys, WalletKeys
<1>2. Deposits \subseteq made /\ made \subseteq Wallets /\ NoWallet \notin Deposits /\ NoWallet \notin made
  BY CustodyAssumption DEF CustodyInv, TypeOK, Deposits
<1>3. HeldOrAbsent(stored["firstMnemonic"]) /\ HeldOrAbsent(stored["secondDescriptor"])
  BY DEF CustodyInv, Deposited
<1>4. \A t \in Text : HeldOrAbsent(t) => t \in Secret
  BY <1>2 DEF HeldOrAbsent, Held, Absent, Text, Secret
<1> QED
  BY <1>1, <1>2, <1>3, <1>4

-----------------------------------------------------------------------------
(* The start.  Its read finds a whole wallet or none, but after a cut.     *)
LEMMA LoadLocalStep == ASSUME CustodyInv, LoadLocal PROVE CustodyInv'
<1>1. page = "loadingLocal" /\ pending = << >> /\ memory = NoKeys /\ KeepAll
  BY DEF LoadLocal, CustodyInv, PageInv, MemoryKept, EmptyPages
<1>2. /\ KeepPhone /\ UNCHANGED <<userFolder, userFiles, deleted, companionVars>> /\ cut' = cut
      /\ appFiles' \subseteq made /\ offer' \in {offer, NoCopy} /\ overtaken' \in BOOLEAN
  BY <1>1 DEF KeepAll, KeepPhone, accountVars, CustodyInv, TypeOK, LoadLocal, Show, Turn
<1>3. Kept' = stored /\ stored \in [Keys -> Text]
  BY <1>1, <1>2, KeptSame, NothingQueued DEF CustodyInv, TypeOK
<1>4. CASE ~Complete
  <2>1. page' = "noLocal" /\ memory' = memory
    BY <1>4 DEF LoadLocal, Turn, Show
  <2>2. memory' \in Arguments /\ HeldOrAbsent(memory'.first) /\ HeldOrAbsent(memory'.descriptor)
    BY <1>1, <2>1, Nothing DEF HeldOrAbsent
  <2>3. MemoryKept' /\ KnownWalletStarts'
    BY <1>1, <2>1 DEF MemoryKept, EmptyPages, ReadPages, OpenedPages, WalletPages, KnownWalletStarts
  <2>4. page' \in Pages \ SetupPages
    BY <2>1 DEF Pages, SetupPages, BackingUp
  <2> QED
    BY <1>2, <2>2, <2>3, <2>4, Turned
<1>5. CASE Complete
  <2>1. /\ page' \in {"localNeedDecrypting", "localDecryptedNeedRemote"}
        /\ page' = "localDecryptedNeedRemote" => stored["firstMnemonic"].password = NoPassword
        /\ memory' = [ first |-> stored["firstMnemonic"], descriptor |-> stored["secondDescriptor"],
                       second |-> NoWallet, password |-> NoPassword,
                       given |-> stored["remoteAccountId"].password ]
    BY <1>5 DEF LoadLocal, Show, NeedsPassword
  <2>2. memory' \in Arguments
    <3>1. stored["remoteAccountId"].password \in Passwords \cup {NoPassword}
      BY StoredSecrets DEF Text, Keys, WalletKeys
    <3> QED
      BY <2>1, <3>1, StoredSecrets DEF Arguments
  <2>3. /\ memory'.first = stored["firstMnemonic"] /\ memory'.descriptor = stored["secondDescriptor"]
        /\ memory'.given = stored["remoteAccountId"].password
        /\ stored["firstMnemonic"] # Absent /\ stored["secondDescriptor"] # Absent
    BY <1>5, <2>1 DEF Complete, WalletKeys
  <2>4. page' \in Pages \ SetupPages /\ KnownWalletStarts'
    BY <2>1 DEF Pages, SetupPages, BackingUp, KnownWalletStarts
  <2>5. ~cut => /\ stored["secondDescriptor"] = stored["firstMnemonic"]
                /\ stored["remoteAccountId"].password
                     \in {stored["firstMnemonic"].password, NoPassword}
    <3>1. ~cut => Whole
      BY <1>1, <1>5 DEF CustodyInv, Behind, NextKey, Starts, Complete, WalletKeys
    <3> QED
      BY <3>1 DEF Whole, SamePair, SameAccount
  <2>6. page' = "localDecryptedNeedRemote" /\ ~cut =>
          memory'.descriptor.text = memory'.first.text /\ HeldIn(stored) = memory'.first.text
    BY <1>5, <2>1, <2>3, <2>5 DEF HeldIn, Complete
  <2>7. Read'
    BY <1>3, <1>5, <2>3 DEF Read, Complete
  <2>8. MemoryKept'
    BY <1>2, <1>3, <2>1, <2>3, <2>5, <2>6, <2>7
       DEF MemoryKept, EmptyPages, ReadPages, OpenedPages, WalletPages
  <2> QED
    BY <1>2, <2>2, <2>3, <2>4, <2>8, StoredSecrets, Turned
<1> QED
  BY <1>4, <1>5

(* The right password opens the three texts that were read.                *)
LEMMA EnterPasswordStep == ASSUME CustodyInv, EnterPassword PROVE CustodyInv'
<1>1. /\ page = "localNeedDecrypting" /\ KeepAll /\ memory \in Arguments
      /\ memory.first # Absent /\ memory.descriptor # Absent
      /\ HeldOrAbsent(memory.first) /\ HeldOrAbsent(memory.descriptor)
      /\ ~cut => memory.descriptor = memory.first
      /\ ~cut /\ ~overtaken => Read
  BY DEF EnterPassword, CustodyInv, PageInv, MemoryKept, ReadPages, HeldMemory, SetupPages, BackingUp,
         TypeOK
<1>2. /\ KeepPhone /\ UNCHANGED <<userFolder, userFiles, deleted, companionVars>> /\ cut' = cut
      /\ appFiles' \subseteq made
  BY <1>1 DEF KeepAll, KeepPhone, accountVars, CustodyInv, TypeOK
<1>3. PICK password \in Passwords \cup {NoPassword} :
        IF Decrypts(password)
        THEN Show("localDecryptedNeedRemote",
                  KeyArguments(Plain(memory.first.text), Plain(memory.descriptor.text),
                               NoWallet, password))
        ELSE Turn("localFailedDecryption")
  BY DEF EnterPassword
<1>4. Kept' = Kept
  BY <1>2, KeptSame
<1>5. CASE ~Decrypts(password)
  <2>1. /\ page' = "localFailedDecryption" /\ memory' = memory /\ offer' = NoCopy
        /\ overtaken' = (overtaken /\ memory.first # Absent)
    BY <1>3, <1>5 DEF Turn, Show
  <2>2. overtaken' \in BOOLEAN /\ (~overtaken' => ~overtaken)
    BY <1>1, <2>1
  <2>3. Read => Read'
    BY <1>4, <2>1 DEF Read
  <2>4. MemoryKept' /\ KnownWalletStarts'
    BY <1>1, <1>2, <2>1, <2>2, <2>3
       DEF MemoryKept, EmptyPages, ReadPages, OpenedPages, WalletPages, KnownWalletStarts
  <2>5. page' \in Pages \ SetupPages
    BY <2>1 DEF Pages, SetupPages, BackingUp
  <2> QED
    BY <1>1, <1>2, <2>1, <2>2, <2>4, <2>5, Turned
<1>6. CASE Decrypts(password)
  <2>1. /\ page' = "localDecryptedNeedRemote" /\ offer' = NoCopy
        /\ memory' = KeyArguments(Plain(memory.first.text), Plain(memory.descriptor.text), NoWallet,
                                  password)
        /\ overtaken' = (overtaken /\ memory'.first # Absent)
    BY <1>3, <1>6 DEF Show
  <2>2. memory'.first = Plain(memory.first.text) /\ memory'.descriptor = Plain(memory.descriptor.text)
    BY <2>1 DEF KeyArguments
  <2>3. /\ memory'.first.text = memory.first.text /\ memory'.descriptor.text = memory.descriptor.text
        /\ HeldOrAbsent(memory'.first) /\ HeldOrAbsent(memory'.descriptor)
    BY <1>1, <2>2 DEF HeldOrAbsent, Held, Plain
  <2>4. memory' \in Arguments
    <3>1. /\ memory.first.text \in Wallets \cup {NoWallet}
          /\ memory.descriptor.text \in Wallets \cup {NoWallet}
      BY <1>1 DEF Arguments, Secret
    <3> QED
      BY <2>1, <3>1 DEF Arguments, KeyArguments, Plain, Secret
  <2>5. memory'.first # Absent
    <3>1. memory.first.text # NoWallet
      BY <1>1, StoredSecrets DEF HeldOrAbsent, Held
    <3> QED
      BY <2>3, <3>1 DEF Absent
  <2>6. overtaken' \in BOOLEAN /\ (~overtaken' => ~overtaken)
    BY <2>1, <2>5
  <2>7. ~cut /\ ~overtaken => HeldIn(Kept) = memory'.first.text
    <3>1. ASSUME ~cut, ~overtaken PROVE HeldIn(Kept) = memory.first.text
      <4>1. Read /\ memory.descriptor = memory.first
        BY <1>1, <3>1
      <4>2. /\ Kept["firstMnemonic"] = memory.first /\ Kept["secondDescriptor"] = memory.first
            /\ Kept["remoteAccountId"].password = memory.first.password
        BY <1>6, <4>1 DEF Read, Decrypts
      <4> QED
        BY <4>1, <4>2 DEF Read, HeldIn
    <3> QED
      BY <2>3, <3>1
  <2>8. MemoryKept' /\ KnownWalletStarts'
    BY <1>1, <1>2, <1>4, <2>1, <2>3, <2>6, <2>7
       DEF MemoryKept, EmptyPages, ReadPages, OpenedPages, WalletPages, KnownWalletStarts
  <2>9. page' \in Pages \ SetupPages
    BY <2>1 DEF Pages, SetupPages, BackingUp
  <2> QED
    BY <1>2, <2>1, <2>3, <2>4, <2>6, <2>8, <2>9, Turned
<1> QED
  BY <1>5, <1>6

(* Steps from a page outside the setup to another, with the same keys, or  *)
(* back home.                                                              *)
LEMMA TurnSteps ==
  ASSUME CustodyInv,
         \/ Launch \/ RetryPassword \/ TryRemote \/ SignedIn \/ LoadFromEmptyFolder \/ LoadFails
         \/ RecoverOver \/ Receive \/ WrongPassword
  PROVE  CustodyInv'
<1> DEFINE SameKeys ==
             /\ memory' = memory /\ overtaken' = (overtaken /\ memory.first # Absent)
             /\ \/ page \in {"off", "home"} /\ page' = "loadingLocal"
                \/ page = "localFailedDecryption" /\ page' = "localNeedDecrypting"
                \/ page = "noLocal" /\ page' = "noLocalFoundRemote"
                \/ page = "localDecryptedNeedRemote" /\ page' = "loadingRemote"
                \/ page = "noLocalFoundRemote" /\ page' = "loadingRemote"
                \/ page = "loadingRemote" /\ page' = "stuck" /\ userFiles = {}
                \/ page = "wallet" /\ page' = "recovery"
                \/ page = "wallet" /\ page' = "receiving"
                \/ page = "recovery" /\ page' = "walletPassword"
           Gone == page' \in {"home", "off"} /\ memory' = NoKeys
                   /\ overtaken' = (overtaken /\ NoKeys.first # Absent)
<1>1. KeepAll /\ offer' = NoCopy /\ (SameKeys \/ Gone)
  BY DEF Launch, RetryPassword, TryRemote, SignedIn, LoadFromEmptyFolder, LoadFails, RecoverOver,
         Receive, WrongPassword, Turn, Show
<1>2. /\ KeepPhone /\ UNCHANGED <<userFolder, userFiles, deleted, companionVars>> /\ cut' = cut
      /\ appFiles' \subseteq made /\ overtaken' \in BOOLEAN
  BY <1>1 DEF KeepAll, KeepPhone, accountVars, CustodyInv, TypeOK
<1>3. CASE Gone
  BY <1>1, <1>2, <1>3, GoneHome, Turned
<1>4. CASE SameKeys
  <2>1. page' \in Pages \ SetupPages /\ page \notin SetupPages
    BY <1>4 DEF Pages, SetupPages, BackingUp
  <2>2. /\ HeldOrAbsent(memory'.first) /\ HeldOrAbsent(memory'.descriptor) /\ memory' \in Arguments
    BY <1>4, <2>1 DEF CustodyInv, PageInv, HeldMemory, TypeOK
  <2>3. Kept' = Kept /\ (Read => Read') /\ (~overtaken' /\ memory.first # Absent => ~overtaken)
        /\ MemoryKept
    <3>1. Kept' = Kept
      BY <1>2, KeptSame
    <3> QED
      BY <1>4, <3>1 DEF Read, CustodyInv, PageInv
  <2>4. KnownWalletStarts'
    BY <1>2, <1>4, <2>2 DEF KnownWalletStarts, HeldOrAbsent, Held, Deposits, Absent
  <2>5. memory = NoKeys => memory.first = Absent
    BY Nothing
  <2>6. MemoryKept'
    BY <1>2, <1>4, <2>3, <2>5 DEF MemoryKept, EmptyPages, ReadPages, OpenedPages, WalletPages
  <2> QED
    BY <1>1, <1>2, <2>1, <2>2, <2>4, <2>6, Turned
<1> QED
  BY <1>1, <1>3, <1>4

LEMMA GivePasswordStep == ASSUME CustodyInv, GivePassword PROVE CustodyInv'
<1>1. page = "walletPassword" /\ page' = "recovery" /\ KeepAll /\ offer' = NoCopy
  BY DEF GivePassword, Show
<1>2. PICK password \in Passwords \cup {NoPassword} :
        /\ memory' = [ first |-> memory.first, descriptor |-> memory.descriptor,
                       second |-> memory.second, password |-> memory.password, given |-> password ]
        /\ overtaken' = (overtaken /\ memory'.first # Absent)
  BY DEF GivePassword, Show
<1>3. memory \in Arguments /\ HeldOrAbsent(memory.first) /\ HeldOrAbsent(memory.descriptor)
  BY <1>1 DEF CustodyInv, TypeOK, PageInv, HeldMemory, SetupPages, BackingUp
<1>4. /\ memory' \in Arguments
      /\ memory'.first = memory.first /\ memory'.descriptor = memory.descriptor
      /\ memory'.second = memory.second
  BY <1>2, <1>3 DEF Arguments
<1>5. /\ KeepPhone /\ UNCHANGED <<userFolder, userFiles, deleted, companionVars>> /\ cut' = cut
      /\ appFiles' \subseteq made /\ overtaken' \in BOOLEAN
      /\ (~overtaken' /\ memory.first # Absent => ~overtaken)
  BY <1>1, <1>2, <1>4 DEF KeepAll, KeepPhone, accountVars, CustodyInv, TypeOK
<1>6. KnownWalletStarts' /\ page' \in Pages \ SetupPages
  BY <1>1 DEF KnownWalletStarts, Pages, SetupPages, BackingUp
<1>7. MemoryKept'
  <2>1. Kept' = Kept /\ MemoryKept
    BY <1>5, KeptSame DEF CustodyInv, PageInv
  <2> QED
    BY <1>1, <1>4, <1>5, <2>1 DEF MemoryKept, EmptyPages, ReadPages, OpenedPages, WalletPages
<1> QED
  BY <1>1, <1>3, <1>4, <1>5, <1>6, <1>7, Turned

(* The ways out of the start: a wallet that is the one on the phone, or    *)
(* the timelock for a wallet whose second seed is deleted, or that is not  *)
(* the one found in the account.                                           *)
LEMMA BranchKeeps ==
  ASSUME CustodyInv, page = "loadingRemote", NEW content \in made \cup {NoWallet},
         content = NoWallet => userFiles = {}, Branch(content),
         UNCHANGED <<stored, pending, cut, made, userFiles, deleted>>
  PROVE  /\ page' \in Pages \ SetupPages /\ memory' \in Arguments
         /\ HeldOrAbsent(memory'.first) /\ HeldOrAbsent(memory'.descriptor)
         /\ MemoryKept' /\ KnownWalletStarts' /\ offer' = NoCopy /\ overtaken' \in BOOLEAN
<1>0. /\ memory \in Arguments /\ HeldOrAbsent(memory.first) /\ HeldOrAbsent(memory.descriptor)
      /\ memory.first # Absent /\ ~cut =>
           /\ memory.descriptor.text = memory.first.text
           /\ ~overtaken => HeldIn(Kept) = memory.first.text
      /\ offer' = NoCopy /\ overtaken' = (overtaken /\ memory'.first # Absent)
  BY DEF CustodyInv, TypeOK, PageInv, HeldMemory, MemoryKept, OpenedPages, SetupPages, BackingUp,
         Branch, Turn, Show
<1>b. overtaken' \in BOOLEAN /\ (~overtaken' /\ memory'.first # Absent => ~overtaken) /\ Kept' = Kept
  BY <1>0 DEF Kept
<1>1. CASE memory.first = Absent
  <2>1. page' = "walletPassword" /\ memory' = memory
    BY <1>1 DEF Branch, Turn, Show
  <2>2. MemoryKept' /\ KnownWalletStarts'
    BY <1>1, <2>1
       DEF MemoryKept, EmptyPages, ReadPages, OpenedPages, WalletPages, KnownWalletStarts
  <2> QED
    BY <1>0, <1>b, <2>1, <2>2 DEF Pages, SetupPages, BackingUp
<1>2. CASE memory.first # Absent /\ content # NoWallet /\ content = memory.first.text
  <2>1. page' = "wallet"
        /\ memory' = KeyArguments(memory.first, memory.descriptor, content, memory.password)
    BY <1>2 DEF Branch, Show
  <2>2. /\ memory'.first = memory.first /\ memory'.descriptor = memory.descriptor
        /\ memory'.second = content /\ memory' \in Arguments
    BY <1>0, <2>1, StoredSecrets DEF KeyArguments, Arguments
  <2>3. KnownWalletStarts'
    BY <2>1 DEF KnownWalletStarts
  <2>4. MemoryKept'
    BY <1>0, <1>b, <1>2, <2>1, <2>2 DEF MemoryKept, EmptyPages, ReadPages, OpenedPages, WalletPages
  <2> QED
    BY <1>0, <1>b, <2>1, <2>2, <2>3, <2>4 DEF Pages, SetupPages, BackingUp
<1>3. CASE memory.first # Absent /\ ~(content # NoWallet /\ content = memory.first.text)
  <2>1. page' = "timelock" /\ memory' = memory
    BY <1>3 DEF Branch, Turn, Show
  <2>2. memory.first.text \in deleted \/ (content \in made /\ content # memory.first.text)
    BY <1>0, <1>3 DEF HeldOrAbsent, Held, Deposits
  <2>3. MemoryKept'
    BY <2>1 DEF MemoryKept, EmptyPages, ReadPages, OpenedPages, WalletPages
  <2>4. KnownWalletStarts'
    BY <2>1, <2>2 DEF KnownWalletStarts
  <2> QED
    BY <1>0, <1>b, <2>1, <2>3, <2>4 DEF Pages, SetupPages, BackingUp
<1> QED
  BY <1>1, <1>2, <1>3

LEMMA LoadSteps ==
  ASSUME CustodyInv, LoadFromAppDirectory \/ LoadFromUserDirectory \/ LoadNothing
  PROVE  CustodyInv'
<1>1. page = "loadingRemote" /\ KeepPhone /\ UNCHANGED <<userFolder, userFiles, deleted, companionVars>>
  BY DEF LoadFromAppDirectory, LoadFromUserDirectory, LoadNothing, KeepAll, accountVars
<1>2. appFiles \subseteq made /\ userFiles \subseteq made /\ NoWallet \notin made
  BY StoredSecrets DEF CustodyInv, TypeOK
<1>3. /\ appFiles' \subseteq made
      /\ \/ \E content \in made \cup {NoWallet} : Branch(content) /\ (content = NoWallet => userFiles = {})
         \/ Show("home", NoKeys)
  <2>1. CASE LoadFromAppDirectory
    BY <1>2, <2>1 DEF LoadFromAppDirectory, KeepAll, accountVars
  <2>2. CASE LoadFromUserDirectory
    BY <1>2, <2>2 DEF LoadFromUserDirectory
  <2>3. CASE LoadNothing
    BY <1>2, <2>3 DEF LoadNothing, CustodyInv, Deposited, KeepAll, accountVars
  <2> QED
    BY <2>1, <2>2, <2>3
<1>4. CASE Show("home", NoKeys)
  <2>1. page' = "home" /\ memory' = NoKeys /\ offer' = NoCopy /\ overtaken' \in BOOLEAN
    BY <1>4 DEF Show
  <2> QED
    BY <1>1, <1>3, <2>1, GoneHome, Turned
<1>5. ASSUME NEW content \in made \cup {NoWallet}, Branch(content), content = NoWallet => userFiles = {}
      PROVE  CustodyInv'
  <2>1. UNCHANGED <<stored, pending, cut, made, userFiles, deleted>>
    BY <1>1 DEF KeepPhone
  <2>2. /\ page' \in Pages \ SetupPages /\ memory' \in Arguments
        /\ HeldOrAbsent(memory'.first) /\ HeldOrAbsent(memory'.descriptor)
        /\ MemoryKept' /\ KnownWalletStarts' /\ offer' = NoCopy /\ overtaken' \in BOOLEAN
    BY <1>1, <1>5, <2>1, BranchKeeps
  <2> QED
    BY <1>1, <1>3, <2>2, Turned
<1> QED
  BY <1>3, <1>4, <1>5

-----------------------------------------------------------------------------
(* The setup.  A new wallet is in the hands of the page alone.             *)
LEMMA NewWalletStep == ASSUME CustodyInv, NewWallet PROVE CustodyInv'
<1>1. page = "noLocal" /\ page' = "readyForBackup" /\ offer' = NoCopy
      /\ UNCHANGED <<stored, pending, left, cut, accountVars, companionVars>>
  BY DEF NewWallet, Show
<1>2. PICK w \in Wallets \ made :
        /\ made' = made \cup {w} /\ memory' = KeyArguments(Plain(w), Plain(w), w, NoPassword)
        /\ overtaken' = (overtaken /\ memory'.first # Absent)
  BY DEF NewWallet, Show
<1>3. AccountGrows
  BY <1>1, <1>2 DEF AccountGrows, Deposits, CustodyInv, TypeOK, Deposited, accountVars
<1>4. WholeCopy(companion') /\ WholeCopy(companionRemote') /\ WholeCopy(offer')
  BY <1>1, CopiesAreWhole DEF companionVars
<1>5. memory' \in Arguments /\ memory'.second = w /\ overtaken' \in BOOLEAN
  BY <1>2 DEF KeyArguments, Plain, Arguments, Secret
<1>6. PageTypes'
  BY <1>1, <1>5 DEF PageTypes, Pages, CustodyInv, TypeOK
<1>7. SetupMemory'
  BY <1>2, <1>5 DEF SetupMemory
<1>8. SetupSteps'
  <2>1. SetupSteps
    BY DEF CustodyInv, PageInv
  <2> QED
    BY <1>1, <1>3, <2>1 DEF SetupSteps, AccountGrows, accountVars
<1>9. MemoryKept' /\ KnownWalletStarts' /\ HeldMemory'
  BY <1>1 DEF MemoryKept, EmptyPages, ReadPages, OpenedPages, WalletPages, KnownWalletStarts,
              HeldMemory, SetupPages
<1> QED
  BY <1>1, <1>3, <1>4, <1>6, <1>7, <1>8, <1>9, Grown DEF PageInv

(* A page of the setup after which it is one again.                        *)
LEMMA SetupTurned ==
  ASSUME CustodyInv, UNCHANGED <<stored, pending, cut, left, companionVars>>, AccountGrows,
         page \in SetupPages, page' \in SetupPages, Turn(page'), SetupSteps'
  PROVE  CustodyInv'
<1>1. memory' = memory /\ offer' = NoCopy /\ overtaken' = (overtaken /\ memory.first # Absent)
  BY DEF Turn, Show
<1>2. WholeCopy(companion') /\ WholeCopy(companionRemote') /\ WholeCopy(offer')
  BY <1>1, CopiesAreWhole DEF companionVars
<1>3. PageTypes'
  <2>1. page' \in Pages
    BY DEF Pages, SetupPages, BackingUp
  <2> QED
    BY <1>1, <2>1 DEF PageTypes, CustodyInv, TypeOK
<1>4. SetupMemory'
  BY <1>1 DEF CustodyInv, PageInv, SetupMemory, AccountGrows
<1>5. MemoryKept' /\ KnownWalletStarts' /\ HeldMemory'
  BY DEF MemoryKept, EmptyPages, ReadPages, OpenedPages, WalletPages, KnownWalletStarts,
         HeldMemory, SetupPages, BackingUp
<1> QED
  BY <1>2, <1>3, <1>4, <1>5, Grown DEF PageInv

LEMMA BackUpStep == ASSUME CustodyInv, BackUp PROVE CustodyInv'
<1>1. /\ page = "readyForBackup" /\ page' = "backingUpApp" /\ Turn(page')
      /\ UNCHANGED <<stored, pending, cut, left, made, accountVars, companionVars>>
  BY DEF BackUp, Turn, Show, KeepAll, KeepPhone
<1>2. AccountGrows /\ page \in SetupPages /\ page' \in SetupPages
  BY <1>1, AccountSame DEF accountVars, CustodyInv, TypeOK, SetupPages, BackingUp
<1>3. SetupSteps'
  BY <1>1 DEF CustodyInv, PageInv, SetupSteps, Deposits, accountVars
<1> QED
  BY <1>1, <1>2, <1>3, SetupTurned

(* A setup has got one step further, or has come to nothing: on its page,  *)
(* or after it was left.                                                   *)
LEMMA Proceeded ==
  ASSUME CustodyInv, NEW w \in made, NEW step \in BackingUp, NEW next \in BackingUp \cup {"backupLost"},
         Proceeds(w, step, next), UNCHANGED <<stored, pending, made, cut, deleted, companionVars>>,
         appFiles' \subseteq made, userFiles \subseteq userFiles', userFiles' \subseteq made,
         userFolder' \in BOOLEAN, userFolder => userFolder', userFiles' # {} => userFolder',
         next = "backingUpUser" => userFolder', next = "backingUpLocally" => w \in userFiles'
  PROVE  CustodyInv'
<1>1. AccountGrows
  BY DEF AccountGrows, CustodyInv, TypeOK, Deposits
<1>2. SetupSteps /\ Deposits \subseteq Deposits' /\ userFiles' \subseteq Deposits'
  BY <1>1 DEF CustodyInv, PageInv, AccountGrows, Deposits
<1>3. CASE page = step /\ memory.second = w /\ Turn(next) /\ UNCHANGED left
  <2>1. page' = next /\ memory' = memory /\ left' = left
    BY <1>3 DEF Turn, Show
  <2>2. SetupSteps'
    BY <1>2, <1>3, <2>1 DEF SetupSteps
  <2>3. page \in SetupPages /\ page' \in SetupPages /\ Turn(page')
    BY <1>3, <2>1 DEF SetupPages
  <2> QED
    BY <1>1, <2>1, <2>2, <2>3, SetupTurned
<1>4. CASE /\ left.page = step /\ left.wallet = w
           /\ left' = IF next = "backupLost" THEN NoTask ELSE [page |-> next, wallet |-> w]
           /\ UNCHANGED <<page, memory, offer, overtaken>>
  <2>1. /\ left' = NoTask \/ (left'.page = next /\ left'.wallet = w /\ next \in BackingUp)
        /\ left' \in [page : BackingUp \cup {"none"}, wallet : Wallets \cup {NoWallet}]
    <3>1. w \in Wallets
      BY StoredSecrets
    <3> QED
      BY <1>4, <3>1, Nothing
  <2>2. SetupSteps'
    BY <1>2, <1>4, <2>1, Nothing DEF SetupSteps, BackingUp
  <2>3. Kept' = Kept
    BY DEF Kept
  <2>4. PageInv'
    BY <1>1, <1>4, <2>2, <2>3, SamePage
  <2>5. PageTypes'
    BY <1>4, <2>1 DEF PageTypes, CustodyInv, TypeOK
  <2>6. WholeCopy(companion') /\ WholeCopy(companionRemote') /\ WholeCopy(offer')
    BY <1>4, CopiesAreWhole DEF companionVars
  <2> QED
    BY <1>1, <2>4, <2>5, <2>6, Grown
<1> QED
  BY <1>3, <1>4 DEF Proceeds

LEMMA BackingUpSteps ==
  ASSUME CustodyInv, PersistInAppDirectory \/ GetDirectoryOrCreate \/ PersistInUserDirectory
  PROVE  CustodyInv'
<1>1. /\ appFiles \subseteq made /\ userFiles \subseteq made /\ userFolder \in BOOLEAN
      /\ userFiles # {} => userFolder
  BY DEF CustodyInv, TypeOK, Deposited
<1>2. /\ {"backingUpApp", "backingUpFolder", "backingUpUser"} \subseteq BackingUp
      /\ "backingUpLocally" \in BackingUp
  BY DEF BackingUp
<1>3. CASE PersistInAppDirectory
  <2>1. PICK w \in made, next \in {"backingUpFolder", "backupLost"} :
          /\ Proceeds(w, "backingUpApp", next) /\ appFiles' \subseteq appFiles \cup {w}
          /\ UNCHANGED <<stored, pending, made, cut, userFolder, userFiles, deleted, companionVars>>
    BY <1>3 DEF PersistInAppDirectory
  <2> QED
    BY <1>1, <1>2, <2>1, Proceeded
<1>4. CASE GetDirectoryOrCreate
  <2>1. PICK w \in made, next \in {"backingUpUser", "backupLost"} :
          /\ Proceeds(w, "backingUpFolder", next) /\ userFolder' \in {userFolder, TRUE}
          /\ next = "backingUpUser" => userFolder'
          /\ UNCHANGED <<stored, pending, made, cut, appFiles, userFiles, deleted, companionVars>>
    BY <1>4 DEF GetDirectoryOrCreate
  <2>2. userFolder' \in BOOLEAN /\ (userFolder => userFolder')
    <3>1. CASE userFolder' = userFolder
      BY <1>1, <3>1
    <3>2. CASE userFolder' = TRUE
      BY <3>2
    <3> QED
      BY <2>1, <3>1, <3>2
  <2> QED
    BY <1>1, <1>2, <2>1, <2>2, Proceeded
<1>5. CASE PersistInUserDirectory
  <2>1. PICK w \in made, next \in {"backingUpLocally", "backupLost"} :
          /\ Proceeds(w, "backingUpUser", next) /\ userFiles' \in {userFiles, userFiles \cup {w}}
          /\ next = "backingUpLocally" => w \in userFiles'
          /\ UNCHANGED <<stored, pending, made, cut, appFiles, userFolder, deleted, companionVars>>
    BY <1>5 DEF PersistInUserDirectory
  <2>2. userFolder
    BY <2>1 DEF Proceeds, CustodyInv, PageInv, SetupSteps
  <2> QED
    BY <1>1, <1>2, <2>1, <2>2, Proceeded
<1> QED
  BY <1>3, <1>4, <1>5

(* A setup that is left goes on with the wallet of its page.               *)
LEMMA LeaveStep == ASSUME CustodyInv, Leave PROVE CustodyInv'
<1>1. /\ Back /\ offer' = NoCopy /\ overtaken' \in BOOLEAN
      /\ UNCHANGED <<stored, pending, made, cut, accountVars, companionVars>>
  BY DEF Leave, Back, Show
<1>2. AccountGrows
  BY <1>1, AccountSame DEF accountVars, CustodyInv, TypeOK
<1>3. WholeCopy(companion') /\ WholeCopy(companionRemote') /\ WholeCopy(offer')
  BY <1>1, CopiesAreWhole DEF companionVars
<1>4. SetupSteps /\ SetupMemory /\ userFolder' = userFolder /\ Deposits' = Deposits
  BY <1>1 DEF CustodyInv, PageInv, Deposits, accountVars
<1>5. CASE OverWallet
  <2>1. /\ page \in WalletPages /\ page \notin SetupPages /\ page' = "wallet"
        /\ memory' = KeyArguments(memory.first, memory.descriptor, memory.second, memory.password)
        /\ overtaken' = (overtaken /\ memory'.first # Absent) /\ left' = left
        /\ memory.first # Absent
    BY <1>1, <1>5 DEF Leave, Back, Show, OverWallet, WalletPages, SetupPages, BackingUp
  <2>2. memory \in Arguments /\ HeldOrAbsent(memory.first) /\ HeldOrAbsent(memory.descriptor)
        /\ MemoryKept
    BY <2>1 DEF CustodyInv, TypeOK, PageInv, HeldMemory
  <2>3. /\ memory'.first = memory.first /\ memory'.descriptor = memory.descriptor
        /\ memory'.second = memory.second /\ memory' \in Arguments
    BY <2>1, <2>2 DEF KeyArguments, Arguments
  <2>4. KeepPhone /\ UNCHANGED <<userFolder, userFiles, deleted, companionVars>>
        /\ appFiles' \subseteq made
    BY <1>1, <2>1 DEF KeepPhone, accountVars, CustodyInv, TypeOK
  <2>5. MemoryKept' /\ KnownWalletStarts' /\ page' \in Pages \ SetupPages
    <3>1. Kept' = Kept /\ cut' = cut /\ (~overtaken' => ~overtaken)
      BY <2>1, <2>3, <2>4, KeptSame DEF KeepPhone
    <3> QED
      BY <2>1, <2>2, <2>3, <3>1 DEF MemoryKept, EmptyPages, ReadPages, OpenedPages, WalletPages,
                                    KnownWalletStarts, Pages, SetupPages, BackingUp
  <2> QED
    BY <1>1, <2>2, <2>3, <2>4, <2>5, Turned
<1>6. CASE ~OverWallet
  <2>1. page' = "home" /\ memory' = NoKeys
    BY <1>1, <1>6 DEF Back, Show
  <2>2. /\ page' \in Pages \ SetupPages /\ memory' \in Arguments
        /\ HeldOrAbsent(memory'.first) /\ HeldOrAbsent(memory'.descriptor)
        /\ MemoryKept' /\ KnownWalletStarts'
    BY <2>1, GoneHome
  <2>3. HeldMemory' /\ SetupMemory'
    BY <1>4, <2>2 DEF HeldMemory, HeldOrAbsent, Held, SetupMemory
  <2>4. CASE page \in BackingUp
    <3>1. left' = [page |-> page, wallet |-> memory.second] /\ memory.second \in made
      BY <1>4, <2>4 DEF Leave, SetupMemory, SetupPages
    <3>2. left'.page = page /\ left'.wallet = memory.second /\ made' = made
          /\ left' \in [page : BackingUp \cup {"none"}, wallet : Wallets \cup {NoWallet}]
      BY <1>1, <2>4, <3>1, StoredSecrets
    <3>3. SetupSteps'
      BY <1>4, <2>1, <2>4, <3>1, <3>2 DEF SetupSteps
    <3>4. PageTypes'
      BY <1>1, <2>2, <3>2 DEF PageTypes
    <3> QED
      BY <1>1, <1>2, <1>3, <2>2, <2>3, <3>3, <3>4, Grown DEF PageInv
  <2>5. CASE page \notin BackingUp
    <3>1. KeepPhone /\ UNCHANGED <<userFolder, userFiles, deleted, companionVars>>
          /\ appFiles' \subseteq made
      BY <1>1, <2>5 DEF Leave, KeepPhone, accountVars, CustodyInv, TypeOK
    <3> QED
      BY <1>1, <2>2, <3>1, Turned
  <2> QED
    BY <2>4, <2>5
<1> QED
  BY <1>5, <1>6

(* Deleting the hidden data of the app, or the owner's folder, takes       *)
(* nothing the invariant needs: what was deposited stays known.            *)
LEMMA DeletingSteps == ASSUME CustodyInv, ClearAppData \/ DeleteUserData PROVE CustodyInv'
<1>1. UNCHANGED phoneVars /\ UNCHANGED companionVars
  BY DEF ClearAppData, DeleteUserData
<1>2. AccountGrows
  <2>1. made' = made /\ appFiles' \subseteq appFiles
    BY <1>1 DEF ClearAppData, DeleteUserData, phoneVars
  <2>2. CASE ClearAppData
    BY <2>1, <2>2, AccountSame DEF ClearAppData, CustodyInv, TypeOK
  <2>3. CASE DeleteUserData
    <3>1. userFiles' = {} /\ deleted' = deleted \cup userFiles /\ userFolder' \in BOOLEAN
      BY <2>3 DEF DeleteUserData
    <3> QED
      BY <2>1, <3>1 DEF AccountGrows, Deposits, CustodyInv, TypeOK
  <2> QED
    BY <2>2, <2>3
<1>3. SetupSteps'
  <2>1. SetupSteps /\ page' = page /\ left' = left /\ memory' = memory
    BY <1>1 DEF CustodyInv, PageInv, phoneVars
  <2>2. page = "backingUpUser" \/ left.page = "backingUpUser" => userFolder' = userFolder
    BY DEF ClearAppData, DeleteUserData
  <2> QED
    BY <1>2, <2>1, <2>2 DEF SetupSteps, AccountGrows
<1>4. PageInv'
  <2>1. Kept' = Kept
    BY <1>1 DEF Kept, phoneVars
  <2> QED
    BY <1>1, <1>2, <1>3, <2>1, SamePage DEF phoneVars
<1>5. PageTypes'
  BY <1>1, TypesOfPage DEF PageTypes, phoneVars
<1>6. WholeCopy(companion') /\ WholeCopy(companionRemote') /\ WholeCopy(offer')
  BY <1>1, CopiesAreWhole DEF companionVars, phoneVars
<1> QED
  BY <1>1, <1>2, <1>4, <1>5, <1>6, Grown DEF phoneVars

-----------------------------------------------------------------------------
(* The storage.  The first write of the queue leaves the rest in order.    *)
LEMMA FlushQueue ==
  ASSUME CustodyInv, Flush
  PROVE  /\ pending' \in Seq(Writes) /\ stored' \in [Keys -> Text] /\ InOrder'
         /\ \A n \in DOMAIN pending' : n + 1 \in DOMAIN pending /\ pending'[n] = pending[n + 1]
         /\ Head(pending) \in Writes /\ Head(pending) = pending[1] /\ 1 \in DOMAIN pending
         /\ Settled(stored', pending') = Settled(stored, pending)
         /\ pending' = << >> => Ends(Head(pending)[1])
         /\ pending' # << >> => Follows(Head(pending), Head(pending'))
<1>0. /\ pending \in Seq(Writes) /\ pending # << >> /\ stored \in [Keys -> Text]
      /\ stored' = [stored EXCEPT ![Head(pending)[1]] = Head(pending)[2]] /\ cut' = cut
      /\ Chained(pending) /\ HasLast(pending)
  BY DEF Flush, CustodyInv, TypeOK, InOrder, Writes
<1>1. PICK rest \in Seq(Writes) : rest = Tail(pending) /\ rest = pending'
  BY <1>0, HeadTailProperties DEF Flush
<1>2. /\ Head(pending) = pending[1] /\ Head(pending) \in Writes /\ 1 \in DOMAIN pending
      /\ DOMAIN pending = 1..Len(pending) /\ DOMAIN rest = 1..(Len(pending) - 1)
      /\ Len(pending) \in Nat \ {0} /\ Len(rest) = Len(pending) - 1
      /\ \A n \in 1..(Len(pending) - 1) : rest[n] = pending[n + 1]
  BY <1>0, <1>1, HeadTailProperties
<1>3. \A n \in DOMAIN rest : n + 1 \in DOMAIN pending /\ rest[n] = pending[n + 1]
  BY <1>2
<1>4. stored' \in [Keys -> Text]
  BY <1>0, <1>2 DEF Writes
<1>5. HasLast(rest) /\ Settled(stored', rest) = Settled(stored, pending)
  BY <1>0, <1>1, SettledTail
<1>6. Chained(rest)
  <2>1. \A n \in DOMAIN rest : rest[n][2] # Absent
    BY <1>0, <1>3 DEF Chained
  <2>2. ASSUME NEW n \in DOMAIN rest, n + 1 \in DOMAIN rest PROVE Follows(rest[n], rest[n + 1])
    <3>1. n + 1 \in DOMAIN pending /\ (n + 1) + 1 \in DOMAIN pending
          /\ rest[n] = pending[n + 1] /\ rest[n + 1] = pending[(n + 1) + 1]
      BY <1>3, <2>2
    <3> QED
      BY <1>0, <3>1 DEF Chained
  <2>3. ASSUME rest # << >> PROVE Ends(rest[Len(rest)][1])
    <3>1. Len(rest) \in DOMAIN rest /\ Len(rest) + 1 = Len(pending)
      BY <1>1, <1>2, <2>3, EmptySeq
    <3> QED
      BY <1>0, <1>3, <3>1 DEF Chained
  <2> QED
    BY <2>1, <2>2, <2>3 DEF Chained
<1>7. InOrder'
  BY <1>0, <1>1, <1>5, <1>6 DEF InOrder, Chained, Follows
<1>8. ASSUME rest = << >> PROVE Ends(Head(pending)[1])
  <2>1. Len(rest) = 0
    BY <1>8
  <2>2. Len(pending) = 1
    <3>1. Len(pending) - 1 = 0 /\ Len(pending) \in Nat
      BY <1>2, <2>1, Zenon
    <3> QED
      BY ONLY <3>1
  <2> QED
    BY <1>0, <1>2, <2>2 DEF Chained
<1>9. ASSUME rest # << >> PROVE Follows(Head(pending), Head(rest))
  <2>1. 1 \in DOMAIN rest /\ Head(rest) = rest[1]
    BY <1>1, <1>2, <1>9, EmptySeq
  <2>2. 1 + 1 \in DOMAIN pending /\ rest[1] = pending[1 + 1]
    BY <1>3, <2>1
  <2>3. Follows(pending[1], pending[1 + 1])
    BY <1>0, <1>2, <2>2 DEF Chained
  <2> QED
    BY <1>2, <2>1, <2>2, <2>3
<1> QED
  BY <1>1, <1>2, <1>3, <1>4, <1>5, <1>7, <1>8, <1>9

(* A value that is written is the next of its wallet, and the next write   *)
(* has the value after it.                                                 *)
LEMMA FlushBehind ==
  ASSUME CustodyInv, Flush
  PROVE  Behind'
<1> DEFINE first == "firstMnemonic"
           descriptor == "secondDescriptor"
           account == "remoteAccountId"
           provider == "remoteProvider"
<1>0. /\ stored \in [Keys -> Text] /\ cut' = cut /\ pending # << >>
      /\ stored' = [stored EXCEPT ![Head(pending)[1]] = Head(pending)[2]]
      /\ {first, descriptor, account, provider} = WalletKeys /\ WalletKeys \subseteq Keys
  BY DEF Flush, CustodyInv, TypeOK, WalletKeys, Keys
<1>1. PICK key \in Keys, value \in Text : /\ Head(pending)[1] = key /\ Head(pending)[2] = value
                                          /\ value # Absent
  <2>1. Head(pending)[2] # Absent
    BY FlushQueue DEF CustodyInv, InOrder, Chained
  <2> QED
    BY <2>1, FlushQueue DEF Writes
<1>2. /\ NextKey = key
      /\ \A k \in Keys : stored'[k] = IF k = key THEN value ELSE stored[k]
  BY <1>0, <1>1 DEF NextKey
<1>3. Behind /\ (pending' = << >> => Ends(key)) /\ (pending' # << >> => Follows(Head(pending), Head(pending')))
  BY <1>1, FlushQueue DEF CustodyInv
<1>4. (pending' = << >> => NextKey' = first) /\ (pending' # << >> => NextKey' = Head(pending')[1])
  BY DEF NextKey
<1>5. first \in Keys /\ descriptor \in Keys /\ account \in Keys /\ provider \in Keys
  BY <1>0
<1>6. CASE key = first
  <2>1. /\ NextKey' = descriptor /\ (~cut => Head(pending')[2] = value)
    BY <1>1, <1>3, <1>4, <1>6 DEF Follows, Ends
  <2>2. /\ stored'[first] = value /\ stored'[descriptor] = stored[descriptor]
        /\ stored'[account] = stored[account] /\ stored'[provider] = stored[provider]
    BY <1>2, <1>5, <1>6
  <2> QED
    BY <1>0, <1>1, <1>3, <2>1, <2>2 DEF Behind, Complete, Starts, WalletKeys
<1>7. CASE key = descriptor
  <2>1. /\ NextKey' = account /\ Head(pending')[2].password \in {value.password, NoPassword}
    BY <1>1, <1>3, <1>4, <1>7 DEF Follows, Ends
  <2>2. /\ stored'[descriptor] = value /\ stored'[first] = stored[first]
        /\ stored'[account] = stored[account] /\ stored'[provider] = stored[provider]
    BY <1>2, <1>5, <1>7
  <2>3. stored[first] # Absent /\ (~cut => value = stored[first])
    BY <1>1, <1>2, <1>3, <1>7 DEF Behind
  <2> QED
    BY <1>0, <1>1, <1>3, <2>1, <2>2, <2>3 DEF Behind, Complete, Starts, SamePair, WalletKeys
<1>8. CASE key = account
  <2>1. NextKey' = provider
    BY <1>1, <1>3, <1>4, <1>8 DEF Follows, Ends
  <2>2. /\ stored'[account] = value /\ stored'[first] = stored[first]
        /\ stored'[descriptor] = stored[descriptor] /\ stored'[provider] = stored[provider]
    BY <1>2, <1>5, <1>8
  <2>3. /\ stored[first] # Absent /\ stored[descriptor] # Absent /\ SamePair
        /\ value.password \in {stored[descriptor].password, NoPassword}
    BY <1>1, <1>2, <1>3, <1>8 DEF Behind
  <2> QED
    BY <1>0, <1>1, <1>3, <2>1, <2>2, <2>3
       DEF Behind, Complete, Starts, SamePair, SameAccount, Whole, WalletKeys
<1>9. CASE key = provider
  <2>1. Starts(NextKey')
    BY <1>1, <1>3, <1>4, <1>9 DEF Follows, Ends, Starts
  <2>2. /\ stored'[provider] = value /\ stored'[first] = stored[first]
        /\ stored'[descriptor] = stored[descriptor] /\ stored'[account] = stored[account]
    BY <1>2, <1>5, <1>9
  <2>3. /\ stored[first] # Absent /\ stored[descriptor] # Absent /\ stored[account] # Absent /\ Whole
    BY <1>2, <1>3, <1>9 DEF Behind
  <2> QED
    BY <1>0, <1>1, <2>1, <2>2, <2>3
       DEF Behind, Complete, Starts, SamePair, SameAccount, Whole, WalletKeys
<1>10. CASE key = "companionDevice"
  <2>1. Starts(NextKey') /\ Starts(NextKey)
    BY <1>1, <1>2, <1>3, <1>4, <1>10 DEF Follows, Ends, Starts
  <2>2. /\ stored'[provider] = stored[provider] /\ stored'[first] = stored[first]
        /\ stored'[descriptor] = stored[descriptor] /\ stored'[account] = stored[account]
    BY <1>2, <1>5, <1>10
  <2> QED
    BY <1>0, <1>3, <2>1, <2>2 DEF Behind, Complete, Starts, SamePair, SameAccount, Whole, WalletKeys
<1> QED
  BY <1>6, <1>7, <1>8, <1>9, <1>10 DEF Keys, WalletKeys

LEMMA FlushStep == ASSUME CustodyInv, Flush PROVE CustodyInv'
<1>0. /\ pending # << >> /\ stored \in [Keys -> Text]
      /\ stored' = [stored EXCEPT ![Head(pending)[1]] = Head(pending)[2]]
      /\ UNCHANGED <<page, memory, left, offer, made, overtaken, cut, accountVars, companionVars>>
  BY DEF Flush, CustodyInv, TypeOK
<1>1. TypeOK'
  BY <1>0, FlushQueue DEF CustodyInv, TypeOK, Writes, accountVars, companionVars
<1>2. Deposits' = Deposits
  BY <1>0 DEF Deposits, accountVars
<1>3. Deposited'
  <2>1. \A n \in DOMAIN pending' :
          pending'[n][1] \in {"firstMnemonic", "secondDescriptor"} => Held(pending'[n][2])
    BY FlushQueue DEF CustodyInv, Deposited
  <2>2. \A key \in {"firstMnemonic", "secondDescriptor"} : HeldOrAbsent(stored'[key])
    <3>1. ASSUME NEW key \in {"firstMnemonic", "secondDescriptor"} PROVE HeldOrAbsent(stored'[key])
      <4>1. key \in Keys
        BY <3>1 DEF Keys, WalletKeys
      <4>2. CASE key = Head(pending)[1]
        <5>1. stored'[key] = Head(pending)[2]
          BY <1>0, <4>1, <4>2
        <5>2. Held(Head(pending)[2])
          BY <3>1, <4>2, FlushQueue DEF CustodyInv, Deposited
        <5> QED
          BY <5>1, <5>2 DEF HeldOrAbsent
      <4>3. CASE key # Head(pending)[1]
        <5>1. stored'[key] = stored[key]
          BY <1>0, <4>1, <4>3
        <5> QED
          BY <3>1, <5>1 DEF CustodyInv, Deposited
      <4> QED
        BY <4>2, <4>3
    <3> QED
      BY <3>1
  <2> QED
    BY <1>0, <1>2, <2>1, <2>2 DEF CustodyInv, Deposited, HeldOrAbsent, Held, accountVars, companionVars
<1>4. CopiesWhole'
  BY <1>0 DEF CustodyInv, CopiesWhole, companionVars
<1>5. PageInv'
  <2>1. Kept' = Kept
    BY FlushQueue DEF Kept
  <2>2. AccountGrows
    BY <1>0, AccountSame DEF accountVars, CustodyInv, TypeOK
  <2>3. SetupSteps'
    BY <1>0, <1>2 DEF CustodyInv, PageInv, SetupSteps, accountVars
  <2> QED
    BY <1>0, <2>1, <2>2, <2>3, SamePage
<1> QED
  BY <1>1, <1>3, <1>4, <1>5, FlushQueue, FlushBehind DEF CustodyInv

(* Killing the app, and losing the phone, empty the queue: what was        *)
(* written is whole, or too little to be found, or was cut.                *)
LEMMA OffStep ==
  ASSUME CustodyInv, Kill \/ LosePhone
  PROVE  CustodyInv'
<1>0. /\ page' = "off" /\ memory' = NoKeys /\ pending' = << >> /\ left' = NoTask
      /\ offer' = NoCopy
      /\ UNCHANGED <<made, accountVars, companionVars>>
      /\ stored' = stored \/ stored' = [key \in Keys |-> Absent]
  BY DEF Kill, LosePhone, Show
<1>b. overtaken' \in BOOLEAN /\ cut' \in BOOLEAN /\ (cut => cut')
  <2>1. overtaken' \in BOOLEAN
    BY DEF Kill, LosePhone, Show
  <2>2. cut \in BOOLEAN
    BY DEF CustodyInv, TypeOK
  <2>3. CASE cut' = cut
    BY <2>1, <2>2, <2>3
  <2>4. CASE cut' = (cut \/ HalfReplaced)
    <3>1. cut' \in BOOLEAN
      BY <2>4
    <3>2. cut => cut'
      BY <2>4
    <3> QED
      BY <2>1, <3>1, <3>2
  <2> QED
    BY <2>3, <2>4 DEF Kill, LosePhone
<1>1. /\ stored' \in [Keys -> Text] /\ \A key \in Keys : stored'[key] \in {stored[key], Absent}
      /\ stored \in [Keys -> Text]
  <2>1. Absent \in Text /\ stored \in [Keys -> Text]
    BY Nothing DEF CustodyInv, TypeOK
  <2> QED
    BY <1>0, <2>1
<1>2. /\ page' \in Pages \ SetupPages /\ memory' \in Arguments
      /\ HeldOrAbsent(memory'.first) /\ HeldOrAbsent(memory'.descriptor)
      /\ MemoryKept' /\ KnownWalletStarts'
  BY <1>0, GoneHome
<1>3. TypeOK'
  BY <1>0, <1>b, <1>1, <1>2, Nothing DEF CustodyInv, TypeOK, accountVars, companionVars
<1>4. Deposits' = Deposits
  BY <1>0 DEF Deposits, accountVars
<1>5. Deposited'
  <2>1. /\ HeldOrAbsent(stored'["firstMnemonic"]) /\ HeldOrAbsent(stored'["secondDescriptor"])
    BY <1>1 DEF CustodyInv, Deposited, HeldOrAbsent, Keys, WalletKeys
  <2> QED
    BY <1>0, <1>4, <2>1, Nothing
       DEF CustodyInv, Deposited, HeldOrAbsent, Held, accountVars, companionVars
<1>6. PageInv'
  BY <1>0, <1>2, <1>4, Nothing
     DEF PageInv, HeldMemory, HeldOrAbsent, Held, SetupMemory, SetupSteps, SetupPages, BackingUp
<1>7. InOrder'
  BY <1>0 DEF InOrder, Chained, HasLast, Queued
<1>8. CopiesWhole'
  BY <1>0, <1>b, Nothing DEF CustodyInv, CopiesWhole, companionVars
<1>9. Behind'
  <2>1. NextKey' = "firstMnemonic"
    BY <1>0 DEF NextKey
  <2>2. CASE Kill
    <3>1. stored' = stored /\ cut' = (cut \/ HalfReplaced)
      BY <2>2 DEF Kill
    <3>2. ASSUME stored["remoteProvider"] # Absent PROVE Complete /\ (~cut' => Whole)
      <4>1. Complete
        BY <3>2 DEF CustodyInv, Behind
      <4>2. ~cut' => Starts(NextKey) /\ ~cut
        <5>1. CASE pending = << >>
          BY <3>1, <5>1 DEF NextKey, Starts
        <5>2. CASE pending # << >>
          <6>1. Head(pending)[1] \in Keys
            <7>1. Head(pending) \in Keys \X Text
              BY <5>2, HeadTailProperties DEF CustodyInv, TypeOK
            <7> QED
              BY <7>1
          <6>2. Starts(Head(pending)[1]) \/ Head(pending)[1] \in WalletKeys \ {"firstMnemonic"}
            BY <6>1 DEF Keys, Starts
          <6> QED
            BY <3>1, <4>1, <5>2, <6>2 DEF HalfReplaced, NextKey
        <5> QED
          BY <5>1, <5>2
      <4> QED
        BY <3>2, <4>1, <4>2 DEF CustodyInv, Behind
    <3> QED
      BY <2>1, <3>1, <3>2 DEF Behind, Complete, Whole, SamePair, SameAccount
  <2>3. CASE LosePhone
    <3>1. stored'["remoteProvider"] = Absent
      BY <2>3 DEF LosePhone, Keys, WalletKeys
    <3> QED
      BY <2>1, <3>1 DEF Behind
  <2> QED
    BY <2>2, <2>3
<1> QED
  BY <1>3, <1>5, <1>6, <1>7, <1>8, <1>9 DEF CustodyInv

-----------------------------------------------------------------------------
(* The companion's copies are copies of what the phone kept whole.         *)
LEMMA CopySteps ==
  ASSUME CustodyInv, CompanionSaves \/ LoseCompanion
  PROVE  CustodyInv'
<1>1. UNCHANGED phoneVars /\ UNCHANGED accountVars
  BY DEF CompanionSaves, LoseCompanion
<1>2. AccountGrows
  BY <1>1, AccountSame DEF phoneVars, accountVars, CustodyInv, TypeOK
<1>3. WholeCopy(companion') /\ WholeCopy(companionRemote') /\ WholeCopy(offer')
  BY <1>1, CopiesAreWhole DEF CompanionSaves, LoseCompanion, phoneVars
<1>4. SetupSteps' /\ Kept' = Kept
  BY <1>1 DEF CustodyInv, PageInv, SetupSteps, Deposits, Kept, phoneVars, accountVars
<1>5. PageInv'
  BY <1>1, <1>2, <1>4, SamePage DEF phoneVars
<1>6. PageTypes'
  BY <1>1, TypesOfPage DEF PageTypes, phoneVars
<1> QED
  BY <1>1, <1>2, <1>3, <1>5, <1>6, Grown DEF phoneVars

LEMMA ScanCompanionStep == ASSUME CustodyInv, ScanCompanion PROVE CustodyInv'
<1>1. /\ page = "wallet" /\ page' = "offering" /\ pending = << >> /\ Complete
      /\ KeepPhone /\ UNCHANGED <<memory, overtaken, accountVars, companionVars>>
      /\ offer' = LocalCopy
  BY DEF ScanCompanion, KeepAll
<1>2. /\ LocalCopy \in Copy
      /\ LocalCopy.first = stored["firstMnemonic"]
      /\ LocalCopy.descriptor = stored["secondDescriptor"]
  BY StoredSecrets DEF LocalCopy, Copy
<1>3. stored["firstMnemonic"] # Absent /\ stored["secondDescriptor"] # Absent
  BY <1>1 DEF Complete, WalletKeys
<1>4. ~cut => stored["secondDescriptor"] = stored["firstMnemonic"]
  BY <1>1 DEF CustodyInv, Behind, NextKey, Starts, Complete, WalletKeys, Whole, SamePair
<1>5. WholeCopy(companion') /\ WholeCopy(companionRemote') /\ WholeCopy(offer')
  BY <1>1, <1>2, <1>3, <1>4, StoredSecrets, CopiesAreWhole DEF WholeCopy, companionVars
<1>6. AccountGrows
  BY <1>1, AccountSame DEF accountVars, CustodyInv, TypeOK, KeepPhone
<1>7. SetupMemory' /\ SetupSteps'
  BY <1>1, <1>6, OutsideSetup DEF SetupPages, BackingUp, KeepPhone, accountVars
<1>8. HeldMemory'
  <2>1. HeldOrAbsent(memory.first) /\ HeldOrAbsent(memory.descriptor)
    BY <1>1 DEF CustodyInv, PageInv, HeldMemory, SetupPages, BackingUp
  <2> QED
    BY <1>1, <1>6, <2>1 DEF HeldMemory, AccountGrows, HeldOrAbsent, Held
<1>9. MemoryKept' /\ KnownWalletStarts'
  <2>1. Kept' = Kept /\ cut' = cut /\ MemoryKept
    BY <1>1, KeptSame DEF KeepPhone, CustodyInv, PageInv
  <2> QED
    BY <1>1, <2>1
       DEF MemoryKept, EmptyPages, ReadPages, OpenedPages, WalletPages, KnownWalletStarts
<1>10. PageTypes'
  BY <1>1 DEF PageTypes, Pages, CustodyInv, TypeOK, KeepPhone
<1> QED
  BY <1>1, <1>5, <1>6, <1>7, <1>8, <1>9, <1>10, Grown DEF KeepPhone, PageInv

-----------------------------------------------------------------------------
(* Writes put behind the queue: whole wallets or flags, of wallets that    *)
(* were deposited.                                                         *)
WritesWhole(more) ==
  /\ more \in Seq(Writes) /\ more # << >> /\ Chained(more) /\ Distinct(more)
  /\ Starts(more[1][1])
  /\ \A k \in DOMAIN more :
       more[k][1] \in {"firstMnemonic", "secondDescriptor"} => Held(more[k][2])

LEMMA Queueing ==
  ASSUME CustodyInv, NEW more \in Seq(Writes), WritesWhole(more), pending' = pending \o more,
         UNCHANGED <<stored, made, cut, accountVars, companionVars>>, offer' \in {offer, NoCopy},
         PageTypes', PageInv'
  PROVE  CustodyInv'
<1>a. /\ more # << >> /\ Chained(more) /\ Distinct(more) /\ Starts(more[1][1])
      /\ \A k \in DOMAIN more :
           more[k][1] \in {"firstMnemonic", "secondDescriptor"} => Held(more[k][2])
  BY DEF WritesWhole
<1>0. /\ pending \in Seq(Writes) /\ HasLast(pending) /\ Chained(pending)
      /\ Len(pending) \in Nat /\ Len(more) \in Nat
      /\ DOMAIN pending = 1..Len(pending) /\ DOMAIN more = 1..Len(more)
  BY DEF CustodyInv, TypeOK, InOrder, Writes
<1>1. /\ pending' \in Seq(Writes) /\ DOMAIN pending' = 1..(Len(pending) + Len(more))
      /\ \A n \in DOMAIN pending' : \/ n \in DOMAIN pending /\ pending'[n] = pending[n]
                                    \/ \E k \in DOMAIN more : pending'[n] = more[k]
  <2>1. PICK both \in Seq(Writes) : both = pending \o more
    BY <1>0, ConcatProperties
  <2>2. DOMAIN both = 1..(Len(pending) + Len(more))
    BY <1>0, <2>1, ConcatProperties, LenProperties
  <2>3. ASSUME NEW n \in DOMAIN both
        PROVE  \/ n \in DOMAIN pending /\ both[n] = pending[n]
               \/ \E k \in DOMAIN more : both[n] = more[k]
    <3>1. CASE n \in 1..Len(pending)
      BY <1>0, <2>1, <3>1, ConcatProperties
    <3>2. CASE n \notin 1..Len(pending)
      <4>1. n - Len(pending) \in DOMAIN more
        BY <1>0, <2>2, <2>3, <3>2
      <4>2. both[n] = more[n - Len(pending)]
        BY <1>0, <2>1, <2>2, <2>3, <3>2, ConcatProperties
      <4> QED
        BY <4>1, <4>2
    <3> QED
      BY <3>1, <3>2
  <2> QED
    BY <2>1, <2>2, <2>3
<1>2. InOrder'
  <2>1. Chained(pending')
    BY <1>a, <1>0, ChainedConcat
  <2>2. HasLast(pending')
    BY <1>a, <1>0, SettledConcat
  <2> QED
    BY <2>1, <2>2 DEF InOrder, Chained, Follows
<1>3. WholeCopy(companion') /\ WholeCopy(companionRemote') /\ WholeCopy(offer')
  BY CopiesAreWhole DEF companionVars
<1> USE DEF accountVars
<1>4. TypeOK'
  BY <1>1, <1>3 DEF CustodyInv, TypeOK, Writes, PageTypes, WholeCopy
<1>5. Deposited'
  <2>1. Deposits' = Deposits
    BY DEF Deposits
  <2>2. \A n \in DOMAIN pending' :
          pending'[n][1] \in {"firstMnemonic", "secondDescriptor"} => Held(pending'[n][2])
    BY <1>a, <1>1 DEF CustodyInv, Deposited
  <2> QED
    BY <1>3, <2>1, <2>2 DEF CustodyInv, Deposited, HeldOrAbsent, Held, WholeCopy
<1>6. CopiesWhole'
  BY <1>3 DEF CopiesWhole, WholeCopy
<1>7. Behind'
  <2>1. CASE pending = << >>
    <3>1. pending' = more
      BY <2>1, ConcatEmptySeq
    <3>2. Starts(NextKey) /\ Starts(NextKey')
      <4>1. Head(more) = more[1]
        OBVIOUS
      <4> QED
        BY <1>a, <2>1, <3>1, <4>1 DEF NextKey, Starts
    <3> QED
      BY <3>2 DEF CustodyInv, Behind, Complete, SamePair, SameAccount, Whole, Starts
  <2>2. CASE pending # << >>
    <3>1. Head(pending') = Head(pending) /\ pending' # << >>
      <4>1. 1 \in DOMAIN pending /\ Head(pending) = pending[1]
        BY <1>0, <2>2, EmptySeq
      <4>2. 1 \in DOMAIN pending' /\ pending'[1] = pending[1]
        BY <1>0, <1>1, <4>1, ConcatProperties
      <4>3. pending' # << >> /\ Head(pending') = pending'[1]
        BY <1>1, <4>2, EmptySeq
      <4> QED
        BY <4>1, <4>2, <4>3
    <3>2. NextKey' = NextKey
      BY <2>2, <3>1 DEF NextKey
    <3> QED
      BY <3>1, <3>2 DEF CustodyInv, Behind, Complete, SamePair, SameAccount, Whole
  <2> QED
    BY <2>1, <2>2
<1> QED
  BY <1>2, <1>4, <1>5, <1>6, <1>7 DEF CustodyInv

(* What the pages hold when writes are queued and a page outside the setup *)
(* is opened.                                                              *)
LEMMA QueuedPage ==
  ASSUME CustodyInv, UNCHANGED <<made, accountVars, left>>, page' \in Pages \ SetupPages,
         memory' \in Arguments, HeldOrAbsent(memory'.first), HeldOrAbsent(memory'.descriptor),
         overtaken' \in BOOLEAN, MemoryKept', KnownWalletStarts'
  PROVE  PageTypes' /\ PageInv'
<1>1. AccountGrows /\ userFolder' = userFolder
  BY AccountSame DEF accountVars, CustodyInv, TypeOK
<1>2. SetupMemory' /\ SetupSteps'
  BY <1>1, OutsideSetup
<1>3. HeldMemory'
  BY <1>1 DEF HeldMemory, AccountGrows, HeldOrAbsent, Held
<1>4. PageTypes'
  BY DEF PageTypes, CustodyInv, TypeOK
<1> QED
  BY <1>2, <1>3, <1>4 DEF PageInv

(* The flag of the companion changes nothing of the wallet.                *)
LEMMA DoneStep == ASSUME CustodyInv, Done PROVE CustodyInv'
<1>0. /\ page = "offering" /\ page' = "wallet" /\ memory' = memory /\ offer' = NoCopy
      /\ overtaken' = (overtaken /\ memory.first # Absent)
      /\ pending' = Append(pending, <<"companionDevice", Plain("true")>>)
      /\ UNCHANGED <<stored, left, made, cut, accountVars, companionVars>>
  BY DEF Done, Turn, Show
<1>1. /\ pending \in Seq(Writes) /\ HasLast(pending) /\ memory \in Arguments
      /\ HeldOrAbsent(memory.first) /\ HeldOrAbsent(memory.descriptor) /\ memory.first # Absent
      /\ ~cut => /\ memory.first.text = memory.second /\ memory.descriptor.text = memory.second
                 /\ ~overtaken => HeldIn(Kept) = memory.second
  BY <1>0 DEF CustodyInv, TypeOK, PageInv, HeldMemory, SetupPages, BackingUp, InOrder, MemoryKept,
              WalletPages, Writes
<1>2. PICK more \in Seq(Writes) :
        /\ more = << <<"companionDevice", Plain("true")>> >> /\ Len(more) = 1
        /\ more[1] = <<"companionDevice", Plain("true")>> /\ Chained(more) /\ Distinct(more)
  BY Flag DEF Words
<1>3. DOMAIN more = 1..1 /\ more[1][1] = "companionDevice" /\ more # << >>
  BY <1>2
<1>4. pending' = pending \o more
  <2>1. PICK e \in Writes : e = <<"companionDevice", Plain("true")>>
    BY <1>2, <1>3
  <2> QED
    BY <1>0, <1>1, <1>2, <2>1, AppendIsConcat
<1>5. \A key \in WalletKeys :
        Settled(stored, pending')[key] = Settled(stored, pending)[key]
  <2>1. \A key \in WalletKeys : key \in Keys /\ \A k \in DOMAIN more : more[k][1] # key
    BY <1>3 DEF Keys, WalletKeys
  <2>2. Distinct(more) /\ HasLast(pending) /\ pending \in Seq(Writes)
    BY <1>1, <1>2
  <2>3. \A key \in Keys : (\A k \in DOMAIN more : more[k][1] # key) =>
          Settled(stored, pending \o more)[key] = Settled(stored, pending)[key]
    BY ONLY <2>2, more \in Seq(Writes), SettledConcat
  <2> QED
    BY <1>4, <2>1, <2>3
<1>6. HeldIn(Kept') = HeldIn(Kept)
  BY <1>0, <1>5 DEF HeldIn, WalletKeys, Kept
<1>7. MemoryKept' /\ KnownWalletStarts' /\ overtaken' \in BOOLEAN /\ page' \in Pages \ SetupPages
  <2>1. cut' = cut /\ (~overtaken' => ~overtaken) /\ overtaken' \in BOOLEAN
    BY <1>0, <1>1
  <2> QED
    BY <1>0, <1>1, <1>6, <2>1 DEF MemoryKept, EmptyPages, ReadPages, OpenedPages, WalletPages,
                                  KnownWalletStarts, Pages, SetupPages, BackingUp
<1>8. WritesWhole(more)
  BY <1>2, <1>3 DEF WritesWhole, Starts
<1>9. PageTypes' /\ PageInv'
  BY <1>0, <1>1, <1>7, QueuedPage
<1> QED
  BY <1>0, <1>2, <1>4, <1>8, <1>9, Queueing

(* The writes of a wallet that was deposited.                              *)
LEMMA WholeBlock ==
  ASSUME CustodyInv, NEW password \in Passwords \cup {NoPassword},
         NEW first \in Text, NEW descriptor \in Text, Held(first), Held(descriptor),
         ~cut => descriptor = first
  PROVE  /\ persistLocally(password, first, descriptor) \in Seq(Writes)
         /\ WritesWhole(persistLocally(password, first, descriptor))
<1>1. first.text # NoWallet /\ descriptor.text # NoWallet
  BY StoredSecrets DEF Held
<1>2. PICK block : block = persistLocally(password, first, descriptor)
  OBVIOUS
<1>3. /\ block \in Seq(Writes) /\ Len(block) = 4 /\ Chained(block) /\ Distinct(block)
      /\ block[1] = <<"firstMnemonic", encryptLeafyData(password, first)>>
      /\ block[2] = <<"secondDescriptor", encryptLeafyData(password, descriptor)>>
      /\ block[3] = <<"remoteAccountId", encryptLeafyData(password, Plain("account"))>>
      /\ block[4] = <<"remoteProvider", Plain("google")>>
  BY <1>1, <1>2, Block
<1>4. ASSUME NEW k \in DOMAIN block, block[k][1] \in {"firstMnemonic", "secondDescriptor"}
      PROVE  Held(block[k][2])
  <2>1. k \in {1, 2, 3, 4}
    BY <1>3
  <2>2. k \in {1, 2}
    BY <1>3, <1>4, <2>1
  <2>3. /\ encryptLeafyData(password, first).text = first.text
        /\ encryptLeafyData(password, descriptor).text = descriptor.text
    BY <1>1, Encrypted
  <2> QED
    BY <1>3, <2>2, <2>3 DEF Held
<1>5. block # << >> /\ Starts(block[1][1])
  BY <1>3 DEF Starts
<1> QED
  BY <1>2, <1>3, <1>4, <1>5 DEF WritesWhole

(* A recovery queues the companion's copy, and starts over or was left for *)
(* the wallet it was opened at.                                            *)
LEMMA RecoverySteps ==
  ASSUME CustodyInv, DecryptAndSave \/ LeaveDeciphering PROVE CustodyInv'
<1>0. /\ page = "recovery" /\ CompanionCopy # NoCopy /\ memory \in Arguments
      /\ pending' = pending \o persistLocally(memory.given, CompanionCopy.first, CompanionCopy.descriptor)
      /\ UNCHANGED <<stored, left, made, cut, accountVars, companionVars>>
      /\ offer' \in {offer, NoCopy}
  BY DEF DecryptAndSave, LeaveDeciphering, Show, Opens, CustodyInv, TypeOK
<1>1. PICK copy \in {companion, companionRemote} : copy = CompanionCopy
  BY DEF CompanionCopy
<1>2. WholeCopy(copy)
  BY <1>1, CopiesAreWhole
<1>3. copy.first # Absent /\ copy.descriptor # Absent
  <2>1. copy = [first |-> copy.first, descriptor |-> copy.descriptor]
    BY <1>2 DEF Copy, WholeCopy
  <2> QED
    BY <1>0, <1>1, <1>2, <2>1 DEF NoCopy, WholeCopy
<1>4. PICK first \in Text, descriptor \in Text :
        /\ first = copy.first /\ descriptor = copy.descriptor
        /\ Held(first) /\ Held(descriptor) /\ (~cut => descriptor = first)
  <2>1. copy.first \in Text /\ copy.descriptor \in Text
    BY <1>2 DEF Copy, Secret, Text, WholeCopy
  <2> QED
    BY <1>2, <1>3, <2>1 DEF WholeCopy, HeldOrAbsent
<1>5. PICK password \in Passwords \cup {NoPassword} : password = memory.given
  BY <1>0 DEF Arguments
<1>6. PICK more \in Seq(Writes) : more = persistLocally(password, first, descriptor) /\ WritesWhole(more)
  BY <1>4, WholeBlock
<1>7. pending' = pending \o more
  BY <1>0, <1>1, <1>4, <1>5, <1>6
<1>8. PageTypes' /\ PageInv'
  <2>1. CASE DecryptAndSave
    <3>1. page' = "home" /\ memory' = NoKeys /\ overtaken' \in BOOLEAN
      BY <2>1 DEF DecryptAndSave, Show
    <3> QED
      BY <1>0, <3>1, GoneHome, QueuedPage
  <2>2. CASE LeaveDeciphering
    <3>1. /\ page' = "wallet" /\ overtaken' = TRUE /\ memory.first # Absent
          /\ memory' = KeyArguments(memory.first, memory.descriptor, memory.second, memory.password)
      BY <2>2 DEF LeaveDeciphering
    <3>2. /\ HeldOrAbsent(memory.first) /\ HeldOrAbsent(memory.descriptor)
          /\ ~cut => memory.first.text = memory.second /\ memory.descriptor.text = memory.second
      BY <1>0, <3>1
         DEF CustodyInv, PageInv, HeldMemory, MemoryKept, WalletPages, SetupPages, BackingUp
    <3>3. /\ memory'.first = memory.first /\ memory'.descriptor = memory.descriptor
          /\ memory'.second = memory.second /\ memory' \in Arguments
      BY <1>0, <3>1 DEF KeyArguments, Arguments
    <3>4. MemoryKept' /\ KnownWalletStarts' /\ page' \in Pages \ SetupPages
      BY <1>0, <3>1, <3>2, <3>3 DEF MemoryKept, EmptyPages, ReadPages, OpenedPages, WalletPages,
                                    KnownWalletStarts, Pages, SetupPages, BackingUp
    <3> QED
      BY <1>0, <3>1, <3>2, <3>3, <3>4, QueuedPage
  <2> QED
    BY <2>1, <2>2
<1> QED
  BY <1>0, <1>6, <1>7, <1>8, Queueing

(* The text of a wallet that was deposited.                                *)
LEMMA PlainText ==
  ASSUME CustodyInv, NEW w \in Deposits
  PROVE  /\ w \in Wallets /\ w # NoWallet /\ Plain(w) \in Text /\ Plain(w) \in Secret
         /\ Plain(w).text = w /\ Plain(w).password = NoPassword /\ Plain(w) # Absent
         /\ Held(Plain(w))
<1>1. w \in Wallets /\ w # NoWallet
  BY StoredSecrets
<1>2. Plain(w).text = w /\ Plain(w).password = NoPassword
  BY DEF Plain
<1>3. Plain(w) \in Text /\ Plain(w) \in Secret
  BY <1>1 DEF Plain, Text, Secret
<1> QED
  BY <1>1, <1>2, <1>3 DEF Absent, Held

(* A setup that was left queues its wallet behind whatever page is open.   *)
LEMMA PersistLocallyUnmountedStep ==
  ASSUME CustodyInv, PersistLocallyUnmounted PROVE CustodyInv'
<1>1. /\ left.page = "backingUpLocally" /\ left' = NoTask
      /\ overtaken' = (memory.first # Absent)
      /\ UNCHANGED <<stored, page, memory, offer, made, cut, accountVars, companionVars>>
  BY DEF PersistLocallyUnmounted
<1>2. PICK w \in Deposits : w = left.wallet
  BY <1>1 DEF CustodyInv, PageInv, SetupSteps
<1>3. PICK password \in Passwords \cup {NoPassword} :
        pending' = pending \o persistLocally(password, Plain(w), Plain(w))
  BY <1>2 DEF PersistLocallyUnmounted
<1>4. PICK more \in Seq(Writes) :
        more = persistLocally(password, Plain(w), Plain(w)) /\ WritesWhole(more)
  BY PlainText, WholeBlock
<1>5. AccountGrows
  BY <1>1, AccountSame DEF accountVars, CustodyInv, TypeOK
<1>6. SetupSteps'
  BY <1>1, Nothing DEF CustodyInv, PageInv, SetupSteps, Deposits, accountVars
<1>7. HeldMemory' /\ SetupMemory' /\ KnownWalletStarts'
  BY <1>1, <1>5 DEF CustodyInv, PageInv, HeldMemory, SetupMemory, KnownWalletStarts, AccountGrows,
                    HeldOrAbsent, Held
<1>8. MemoryKept'
  BY <1>1 DEF CustodyInv, PageInv, MemoryKept, WalletPages, OpenedPages, ReadPages, EmptyPages
<1>9. PageTypes'
  BY <1>1, Nothing DEF PageTypes, CustodyInv, TypeOK
<1> QED
  BY <1>1, <1>3, <1>4, <1>6, <1>7, <1>8, <1>9, Queueing DEF PageInv

(* A setup queues its wallet and opens it: once written, it is kept whole. *)
LEMMA PersistLocallyStep == ASSUME CustodyInv, PersistLocally PROVE CustodyInv'
<1>0. /\ page = "backingUpLocally" /\ page' = "wallet" /\ overtaken' = FALSE
      /\ memory.second \in Deposits
      /\ memory = KeyArguments(Plain(memory.second), Plain(memory.second), memory.second, NoPassword)
      /\ UNCHANGED <<stored, left, offer, made, cut, accountVars, companionVars>>
  BY DEF PersistLocally, CustodyInv, PageInv, SetupMemory, SetupSteps, SetupPages, BackingUp
<1>1. PICK w \in Deposits : w = memory.second /\ w \in Wallets /\ w # NoWallet
  BY <1>0, PlainText
<1>2. PICK t \in Text : /\ t = Plain(w) /\ t.text = w /\ t.password = NoPassword /\ t # Absent
                        /\ t \in Secret
  BY PlainText
<1>3. memory.first = t /\ memory.descriptor = t
  BY <1>0, <1>1, <1>2 DEF KeyArguments
<1>4. PICK password \in Passwords \cup {NoPassword} :
        /\ pending' = pending \o persistLocally(password, t, t)
                              \o << <<"companionDevice", Plain("false")>> >>
        /\ memory' = KeyArguments(t, t, w, password)
  BY <1>1, <1>3 DEF PersistLocally
<1>5. PICK block : block = persistLocally(password, t, t)
  OBVIOUS
<1>6. /\ block \in Seq(Writes) /\ Len(block) = 4 /\ Chained(block) /\ Distinct(block)
      /\ block[1] = <<"firstMnemonic", encryptLeafyData(password, t)>>
      /\ block[2] = <<"secondDescriptor", encryptLeafyData(password, t)>>
      /\ block[3] = <<"remoteAccountId", encryptLeafyData(password, Plain("account"))>>
      /\ block[4] = <<"remoteProvider", Plain("google")>>
  <2>1. /\ password \in Passwords \cup {NoPassword} /\ t \in Text /\ t.text # NoWallet
        /\ ~cut => t = t
    BY <1>1, <1>2
  <2> QED
    BY ONLY <2>1, <1>5, Block
<1>7. PICK flag \in Seq(Writes) :
        /\ flag = << <<"companionDevice", Plain("false")>> >> /\ Len(flag) = 1
        /\ flag[1] = <<"companionDevice", Plain("false")>> /\ Chained(flag) /\ Distinct(flag)
  BY Flag DEF Words
<1>8. PICK more \in Seq(Writes) : more = block \o flag
  BY <1>6, <1>7, ConcatProperties
<1>9. /\ Len(more) = 5 /\ DOMAIN more = 1..5 /\ more # << >>
      /\ more[1] = block[1] /\ more[2] = block[2] /\ more[3] = block[3] /\ more[4] = block[4]
      /\ more[5] = flag[1]
  <2>1. /\ Len(more) = Len(block) + Len(flag)
        /\ \A n \in 1..(Len(block) + Len(flag)) :
             more[n] = IF n <= Len(block) THEN block[n] ELSE flag[n - Len(block)]
    BY <1>6, <1>8, ConcatProperties
  <2>2. Len(more) = 5 /\ DOMAIN more = 1..5
    BY <1>6, <1>7, <2>1
  <2>3. \A n \in 1..5 : more[n] = IF n <= 4 THEN block[n] ELSE flag[n - 4]
    BY <1>6, <1>7, <2>1
  <2>4. more[5] = flag[1]
    BY <2>3
  <2>5. more[1] = block[1] /\ more[2] = block[2] /\ more[3] = block[3] /\ more[4] = block[4]
    BY <2>3
  <2>6. more # << >>
    BY <2>2, EmptySeq
  <2> QED
    BY <2>2, <2>4, <2>5, <2>6
<1>10. Chained(more) /\ Starts(more[1][1])
  <2>1. flag # << >> /\ Starts(flag[1][1])
    BY <1>7 DEF Starts
  <2>2. Chained(more)
    BY <1>6, <1>7, <1>8, <2>1, ChainedConcat
  <2> QED
    BY <1>6, <1>9, <2>2 DEF Starts
<1>11. Distinct(more)
  <2>1. \A k \in DOMAIN more : k \in {1, 2, 3, 4, 5}
    BY <1>9
  <2> QED
    BY <1>6, <1>7, <1>9, <2>1 DEF Distinct
<1>12. pending' = pending \o more
  <2>1. pending \in Seq(Writes) /\ block \in Seq(Writes)
    BY <1>6 DEF CustodyInv, TypeOK, Writes
  <2>2. (pending \o block) \o flag = pending \o (block \o flag)
    BY ONLY <2>1, flag \in Seq(Writes), ConcatAssociative
  <2> QED
    BY <1>4, <1>5, <1>7, <1>8, <2>2
<1>13. /\ encryptLeafyData(password, t) # Absent /\ encryptLeafyData(password, t).text = w
       /\ encryptLeafyData(password, t).password = password
       /\ encryptLeafyData(password, Plain("account")) # Absent
       /\ encryptLeafyData(password, Plain("account")).password = password
       /\ Plain("google") # Absent
  <2>1. "account" \in Words /\ "google" \in Words
    BY DEF Words
  <2>2. PICK u \in Text : u = Plain("account") /\ u.text # NoWallet /\ u.password = NoPassword
    BY <2>1, PlainWords
  <2>3. /\ encryptLeafyData(password, t) # Absent /\ encryptLeafyData(password, t).text = w
        /\ encryptLeafyData(password, t).password = password
    <3>1. /\ encryptLeafyData(password, t) # Absent /\ encryptLeafyData(password, t).text = t.text
          /\ encryptLeafyData(password, t).password =
               IF password = NoPassword THEN t.password ELSE password
      <4>1. password \in Passwords \cup {NoPassword} /\ t \in Text /\ t.text # NoWallet
        BY <1>1, <1>2
      <4> QED
        BY ONLY <4>1, Encrypted
    <3> QED
      BY <1>2, <3>1
  <2>4. /\ encryptLeafyData(password, u) # Absent
        /\ encryptLeafyData(password, u).password =
             IF password = NoPassword THEN u.password ELSE password
    <3>1. password \in Passwords \cup {NoPassword} /\ u \in Text /\ u.text # NoWallet
      BY <2>2
    <3> QED
      BY ONLY <3>1, Encrypted
  <2>5. Plain("google") # Absent
    BY <2>1, PlainWords
  <2> QED
    BY <2>2, <2>3, <2>4, <2>5
<1>14. ASSUME NEW k \in DOMAIN more, more[k][1] \in {"firstMnemonic", "secondDescriptor"}
       PROVE  Held(more[k][2])
  <2>1. k \in {1, 2, 3, 4, 5}
    BY <1>9
  <2>2. k \in {1, 2}
    BY <1>6, <1>7, <1>9, <1>14, <2>1
  <2> QED
    BY <1>1, <1>6, <1>9, <1>13, <2>2 DEF Held
<1>15. HeldIn(Settled(stored, pending')) = w
  <2>1. \A k \in DOMAIN more : Settled(stored, pending')[more[k][1]] = more[k][2]
    <3>1. HasLast(pending) /\ pending \in Seq(Writes)
      BY DEF CustodyInv, InOrder, TypeOK, Writes
    <3>2. more \in Seq(Writes)
      OBVIOUS
    <3>3. \A k \in DOMAIN more : Settled(stored, pending \o more)[more[k][1]] = more[k][2]
      <4>1. /\ HasLast(pending \o more)
            /\ \A k \in DOMAIN more : Settled(stored, pending \o more)[more[k][1]] = more[k][2]
            /\ \A key \in Keys : (\A k \in DOMAIN more : more[k][1] # key) =>
                 Settled(stored, pending \o more)[key] = Settled(stored, pending)[key]
        BY ONLY <1>11, <3>1, <3>2, SettledConcat, ZenonT(60)
      <4> QED
        BY ONLY <4>1
    <3> QED
      BY <1>12, <3>3
  <2>2. /\ Settled(stored, pending')["firstMnemonic"] = encryptLeafyData(password, t)
        /\ Settled(stored, pending')["secondDescriptor"] = encryptLeafyData(password, t)
        /\ Settled(stored, pending')["remoteAccountId"] = encryptLeafyData(password, Plain("account"))
        /\ Settled(stored, pending')["remoteProvider"] = Plain("google")
    <3>1. /\ Settled(stored, pending')[more[1][1]] = more[1][2]
          /\ Settled(stored, pending')[more[2][1]] = more[2][2]
          /\ Settled(stored, pending')[more[3][1]] = more[3][2]
          /\ Settled(stored, pending')[more[4][1]] = more[4][2]
      BY <1>9, <2>1
    <3> QED
      BY <1>6, <1>9, <3>1
  <2> QED
    BY <1>13, <2>2 DEF HeldIn, WalletKeys
<1>16. /\ memory'.first = t /\ memory'.descriptor = t /\ memory'.second = w
       /\ memory' \in Arguments
  BY <1>1, <1>2, <1>4 DEF KeyArguments, Arguments
<1>17. MemoryKept' /\ KnownWalletStarts' /\ page' \in Pages \ SetupPages
  <2>1. HeldIn(Kept') = w
    BY <1>0, <1>15 DEF Kept
  <2> QED
    BY <1>0, <1>2, <1>16, <2>1 DEF MemoryKept, EmptyPages, ReadPages, OpenedPages, WalletPages,
                                   KnownWalletStarts, Pages, SetupPages, BackingUp
<1>18. HeldOrAbsent(memory'.first) /\ HeldOrAbsent(memory'.descriptor)
  BY <1>2, <1>16 DEF HeldOrAbsent, Held
<1>19. WritesWhole(more)
  BY <1>9, <1>10, <1>11, <1>14 DEF WritesWhole
<1>20. PageTypes' /\ PageInv'
  BY <1>0, <1>16, <1>17, <1>18, QueuedPage
<1> QED
  BY <1>0, <1>12, <1>19, <1>20, Queueing

-----------------------------------------------------------------------------
(* Every step keeps the invariant.                                         *)
LEMMA NextInv == CustodyInv /\ [Next]_vars => CustodyInv'
<1> SUFFICES ASSUME CustodyInv, [Next]_vars PROVE CustodyInv'
  OBVIOUS
<1>1. CASE Flush
  BY <1>1, FlushStep
<1>2. CASE Start
  BY <1>2, LoadLocalStep, LoadSteps, TurnSteps DEF Start
<1>3. CASE Setup
  BY <1>3, BackingUpSteps, PersistLocallyStep, PersistLocallyUnmountedStep DEF Setup
<1>4. CASE Owner
  BY <1>4, EnterPasswordStep, TurnSteps, NewWalletStep, BackUpStep, LeaveStep, ScanCompanionStep,
     DoneStep, GivePasswordStep, RecoverySteps DEF Owner
<1>5. CASE CompanionSaves
  BY <1>5, CopySteps
<1>6. CASE Loss
  BY <1>6, OffStep, CopySteps, DeletingSteps DEF Loss
<1>7. CASE UNCHANGED vars
  <2>1. UNCHANGED phoneVars /\ UNCHANGED accountVars /\ UNCHANGED companionVars
    BY <1>7 DEF vars
  <2>2. AccountGrows
    BY <2>1, AccountSame DEF phoneVars, accountVars, CustodyInv, TypeOK
  <2>3. WholeCopy(companion') /\ WholeCopy(companionRemote') /\ WholeCopy(offer')
    BY <2>1, CopiesAreWhole DEF phoneVars, companionVars
  <2>4. SetupSteps' /\ Kept' = Kept
    BY <2>1 DEF CustodyInv, PageInv, SetupSteps, Deposits, Kept, phoneVars, accountVars
  <2>5. PageInv'
    BY <2>1, <2>2, <2>4, SamePage DEF phoneVars
  <2>6. PageTypes'
    BY <2>1, TypesOfPage DEF PageTypes, phoneVars
  <2> QED
    BY <2>1, <2>2, <2>3, <2>5, <2>6, Grown DEF phoneVars
<1> QED
  BY <1>1, <1>2, <1>3, <1>4, <1>5, <1>6, <1>7 DEF Next

(* The invariant holds in every state.                                     *)
THEOREM SpecCustodyInv == Spec => []CustodyInv
BY InitInv, NextInv, PTL DEF Spec

(* Types of the storage, the pages, the account and the companion's copies.*)
THEOREM SpecTypeOK == Spec => []TypeOK
<1>1. CustodyInv => TypeOK
  BY DEF CustodyInv
<1> QED
  BY <1>1, SpecCustodyInv, PTL

(* A wallet page has the three keys of one wallet, wherever the app was    *)
(* killed and whatever page was left, but for writes of a wallet over      *)
(* another that were cut.                                                  *)
THEOREM SpecOneWallet == Spec => []OneWallet
<1>1. CustodyInv => OneWallet
  BY DEF CustodyInv, PageInv, MemoryKept, WalletPages, OneWallet
<1> QED
  BY <1>1, SpecCustodyInv, PTL

(* A start that found a wallet on the phone hangs only for an owner who    *)
(* has deleted its second seed, and goes to the timelock recovery only for *)
(* such an owner or one who made another wallet.                           *)
THEOREM SpecKnownWalletStarts == Spec => []KnownWalletStarts
<1>1. CustodyInv => KnownWalletStarts
  BY DEF CustodyInv, PageInv
<1> QED
  BY <1>1, SpecCustodyInv, PTL

(* The wallet of an open page is the one the phone keeps once the writes   *)
(* that nobody awaits are made, but for a page that was left and wrote     *)
(* another wallet behind it.                                               *)
THEOREM SpecWrittenBehind == Spec => []WrittenBehind
<1>1. CustodyInv => WrittenBehind
  BY DEF CustodyInv, PageInv, MemoryKept, WalletPages, WrittenBehind, Kept
<1> QED
  BY <1>1, SpecCustodyInv, PTL

(* What the phone keeps when it is at rest: both texts are of one wallet,  *)
(* alike, and its second seed was deposited.  The account is sealed as     *)
(* they are; only a recovery that was given no password for a sealed copy  *)
(* stores it plain, and then no password opens the three.                  *)
AtRest == Complete /\ pending = << >> /\ ~cut
StoredIsWhole ==
  AtRest =>
    /\ stored["firstMnemonic"].text \in userFiles \cup deleted
    /\ stored["secondDescriptor"] = stored["firstMnemonic"]
    /\ stored["remoteAccountId"].password \in {stored["firstMnemonic"].password, NoPassword}

THEOREM SpecStoredIsWhole == Spec => []StoredIsWhole
<1>1. CustodyInv => StoredIsWhole
  <2> SUFFICES ASSUME CustodyInv, AtRest
               PROVE  /\ Held(stored["firstMnemonic"])
                      /\ stored["secondDescriptor"] = stored["firstMnemonic"]
                      /\ stored["remoteAccountId"].password
                           \in {stored["firstMnemonic"].password, NoPassword}
    BY DEF StoredIsWhole, Held, Deposits
  <2>1. stored["firstMnemonic"] # Absent /\ stored["remoteProvider"] # Absent
    BY DEF AtRest, Complete, WalletKeys
  <2>2. Held(stored["firstMnemonic"])
    BY <2>1 DEF CustodyInv, Deposited, HeldOrAbsent
  <2>3. Starts(NextKey)
    BY DEF AtRest, NextKey, Starts
  <2>4. SamePair /\ SameAccount
    BY <2>1, <2>3 DEF CustodyInv, Behind, Whole, AtRest
  <2> QED
    BY <2>2, <2>4 DEF SamePair, SameAccount, AtRest
<1> QED
  BY <1>1, SpecCustodyInv, PTL

(* An address to send coins to is only shown of a wallet whose second seed *)
(* was deposited in the account's folder, and it is the wallet the phone   *)
(* keeps once the queued writes are made: also after a recovery or a setup *)
(* that went on behind its page, but for one that wrote behind this one.   *)
ShownAreDeposited ==
  page = "receiving" =>
    /\ memory.first.text \in userFiles \cup deleted
    /\ ~cut /\ ~overtaken => HeldIn(Settled(stored, pending)) = memory.first.text

THEOREM SpecShownAreDeposited == Spec => []ShownAreDeposited
<1>1. CustodyInv => ShownAreDeposited
  BY DEF CustodyInv, PageInv, HeldMemory, HeldOrAbsent, Held, Deposits, MemoryKept, WalletPages,
         SetupPages, BackingUp, Kept, ShownAreDeposited
<1> QED
  BY <1>1, SpecCustodyInv, PTL

-----------------------------------------------------------------------------
(* The refinement: every step keeps what Backup promises, or leaves alone  *)
(* what the promise speaks of.                                             *)
CompanionKept == IF companion.first.text = companion.descriptor.text THEN companion.first.text
                                                                     ELSE NoWallet
Shown == IF page = "receiving" THEN memory.first.text ELSE NoWallet
Mixed == cut \/ overtaken

(* The wallet the phone keeps whole is deposited; so is the companion's.   *)
LEMMA KeptAreDeposited ==
  CustodyInv => /\ HeldIn(stored) \in (Deposits \cap Wallets) \cup {NoWallet}
                /\ CompanionKept \in (Deposits \cap Wallets) \cup {NoWallet}
<1> SUFFICES ASSUME CustodyInv
             PROVE  /\ HeldIn(stored) \in (Deposits \cap Wallets) \cup {NoWallet}
                    /\ CompanionKept \in (Deposits \cap Wallets) \cup {NoWallet}
  OBVIOUS
<1>1. \A t : HeldOrAbsent(t) => t.text \in (Deposits \cap Wallets) \cup {NoWallet}
  BY StoredSecrets DEF HeldOrAbsent, Held, Absent
<1>2. HeldOrAbsent(stored["firstMnemonic"]) /\ HeldOrAbsent(companion.first)
  BY DEF CustodyInv, Deposited
<1> QED
  BY <1>1, <1>2 DEF HeldIn, CompanionKept

LEMMA KeptAreDepositedNext ==
  CustodyInv' => /\ HeldIn(stored)' \in (Deposits' \cap Wallets) \cup {NoWallet}
                 /\ CompanionKept' \in (Deposits' \cap Wallets) \cup {NoWallet}
<1>1. CustodyInv' => (/\ HeldIn(stored) \in (Deposits \cap Wallets) \cup {NoWallet}
                      /\ CompanionKept \in (Deposits \cap Wallets) \cup {NoWallet})'
  BY KeptAreDeposited, PTL
<1> QED
  BY <1>1

(* The first write of the queue keeps a deposited wallet whole, or none.   *)
LEMMA FlushKeepsPromise == ASSUME CustodyInv', Flush PROVE Promise!Next
<1>1. /\ Deposits' = Deposits /\ CompanionKept' = CompanionKept /\ Shown' = Shown /\ Mixed' = Mixed
  BY DEF Flush, accountVars, companionVars, Deposits, CompanionKept, Shown, Mixed
<1>2. HeldIn(stored)' \in (Deposits \cap Wallets) \cup {NoWallet}
  BY <1>1, KeptAreDepositedNext
<1>3. CASE HeldIn(stored)' = NoWallet
  <2>1. Promise!Forget
    BY <1>1, <1>3 DEF Promise!Forget, Deposits, CompanionKept, Shown, Mixed
  <2> QED
    BY <2>1 DEF Promise!Next
<1>4. CASE HeldIn(stored)' \in Deposits \cap Wallets
  <2>1. PICK w \in Wallets : w \in Deposits /\ HeldIn(stored)' = w
    BY <1>4
  <2>2. Promise!Keep(w)
    BY <1>1, <2>1 DEF Promise!Keep, Deposits, CompanionKept, Shown, Mixed
  <2> QED
    BY <2>2 DEF Promise!Next
<1> QED
  BY <1>2, <1>3, <1>4

(* So does one that only changes the companion's copy.                     *)
LEMMA SharingKeepsPromise ==
  ASSUME CustodyInv', CompanionSaves \/ LoseCompanion
  PROVE  Promise!Next
<1>1. /\ Deposits' = Deposits /\ HeldIn(stored)' = HeldIn(stored) /\ Shown' = Shown /\ Mixed' = Mixed
  BY DEF CompanionSaves, LoseCompanion, phoneVars, accountVars, Deposits, Shown, Mixed
<1>2. CompanionKept' \in (Deposits \cap Wallets) \cup {NoWallet}
  BY <1>1, KeptAreDepositedNext
<1>3. CASE CompanionKept' = NoWallet
  <2>1. Promise!LoseCompanion
    BY <1>1, <1>3 DEF Promise!LoseCompanion, Deposits, CompanionKept, Shown, Mixed
  <2> QED
    BY <2>1 DEF Promise!Next
<1>4. CASE CompanionKept' \in Deposits \cap Wallets
  <2>1. PICK w \in Wallets : w \in Deposits /\ CompanionKept' = w
    BY <1>4
  <2>2. Promise!Share(w)
    BY <1>1, <2>1 DEF Promise!Share, Deposits, CompanionKept, Shown, Mixed
  <2> QED
    BY <2>2 DEF Promise!Next
<1> QED
  BY <1>2, <1>3, <1>4

(* The address shown is of the wallet in the storage.                      *)
LEMMA ReceiveKeepsPromise == ASSUME CustodyInv, Receive PROVE Promise!Next
<1>1. /\ page = "wallet" /\ pending = << >> /\ page' = "receiving" /\ memory' = memory
      /\ overtaken' = (overtaken /\ memory.first # Absent)
      /\ UNCHANGED <<userFiles, deleted, cut, stored, companion>>
  BY DEF Receive, Turn, Show, KeepAll, KeepPhone, accountVars, companionVars
<1>2. memory.first # Absent /\ HeldOrAbsent(memory.first)
  BY <1>1 DEF CustodyInv, PageInv, MemoryKept, HeldMemory, SetupPages, BackingUp
<1>3. PICK w \in Wallets : w = memory.first.text /\ w \in Deposits
  BY <1>2, StoredSecrets DEF HeldOrAbsent, Held
<1>4. Mixed \/ HeldIn(stored) = w
  <2>1. Kept = stored
    BY <1>1, NothingQueued
  <2> QED
    BY <1>1, <1>2, <1>3, <2>1 DEF CustodyInv, PageInv, MemoryKept, WalletPages, Mixed
<1>5. Mixed' = Mixed /\ Shown' = w /\ Deposits' = Deposits
  <2>1. overtaken' = overtaken
    BY <1>1, <1>2 DEF CustodyInv, TypeOK
  <2> QED
    BY <1>1, <1>3, <2>1 DEF Mixed, Shown, Deposits
<1>6. Promise!Show(w)
  BY <1>1, <1>3, <1>4, <1>5 DEF Promise!Show, Deposits, CompanionKept, Shown, Mixed
<1> QED
  BY <1>6 DEF Promise!Next

(* Another step deposits a second seed, or at most parts a page from the   *)
(* wallet the phone keeps.                                                 *)
LEMMA PartingKeepsPromise ==
  ASSUME UNCHANGED <<stored, companion>>, Deposits' = Deposits,
         page' # "receiving" \/ UNCHANGED <<page, memory>>
  PROVE  Promise!Next
<1>1. Shown' \in {Shown, NoWallet} /\ Mixed' \in BOOLEAN /\ CompanionKept' = CompanionKept
  BY DEF Shown, Mixed, CompanionKept
<1>2. Promise!Part
  BY <1>1 DEF Promise!Part, Deposits, CompanionKept, Shown, Mixed
<1> QED
  BY <1>2 DEF Promise!Next

LEMMA DepositKeepsPromise ==
  ASSUME CustodyInv, PersistInUserDirectory PROVE Promise!Next
<1>1. PICK w \in made, next \in {"backingUpLocally", "backupLost"} :
        /\ Proceeds(w, "backingUpUser", next) /\ userFiles' \in {userFiles, userFiles \cup {w}}
        /\ UNCHANGED <<stored, cut, deleted, companion>>
  BY DEF PersistInUserDirectory, companionVars
<1>2. w \in Wallets
  BY StoredSecrets
<1>3. CASE userFiles' = userFiles
  <2>1. Deposits' = Deposits /\ (page' # "receiving" \/ UNCHANGED <<page, memory>>)
    BY <1>1, <1>3 DEF Deposits, Proceeds, Turn, Show
  <2> QED
    BY <1>1, <2>1, PartingKeepsPromise
<1>4. CASE userFiles' = userFiles \cup {w}
  <2>1. Deposits' = Deposits \cup {w} /\ CompanionKept' = CompanionKept
    BY <1>1, <1>4 DEF Deposits, CompanionKept
  <2>2. Shown' = Shown /\ Mixed' = Mixed
    <3>1. CASE page = "backingUpUser" /\ memory.second = w /\ Turn(next)
      <4>1. memory.first # Absent
        <5>1. memory.first = Plain(w) /\ w # NoWallet
          BY <1>1, <3>1, StoredSecrets
             DEF CustodyInv, PageInv, SetupMemory, SetupPages, BackingUp, KeyArguments
        <5> QED
          BY <5>1 DEF Plain, Absent
      <4>2. overtaken' = overtaken
        BY <3>1, <4>1 DEF Turn, Show, CustodyInv, TypeOK
      <4> QED
        BY <1>1, <3>1, <4>2 DEF Turn, Show, Shown, Mixed
    <3>2. CASE UNCHANGED <<page, memory, overtaken>>
      BY <1>1, <3>2 DEF Shown, Mixed
    <3> QED
      BY <1>1, <3>1, <3>2 DEF Proceeds
  <2>3. Promise!Deposit(w)
    BY <1>1, <2>1, <2>2 DEF Promise!Deposit, Deposits, CompanionKept, Shown, Mixed
  <2> QED
    BY <1>2, <2>3 DEF Promise!Next
<1> QED
  BY <1>1, <1>3, <1>4

(* What is lost: a kill may cut a wallet, a lost phone keeps none.         *)
LEMMA LossKeepsPromise ==
  ASSUME CustodyInv', Loss
  PROVE  Promise!Next
<1>1. CASE Kill
  <2>1. Deposits' = Deposits /\ UNCHANGED <<stored, companion>> /\ page' # "receiving"
    BY <1>1 DEF Kill, Show, accountVars, companionVars, Deposits
  <2> QED
    BY <2>1, PartingKeepsPromise
<1>2. CASE LosePhone
  <2>1. /\ Deposits' = Deposits /\ CompanionKept' = CompanionKept /\ page' = "off" /\ cut' = cut
        /\ overtaken' = (overtaken /\ NoKeys.first # Absent)
        /\ stored' = [key \in Keys |-> Absent]
    BY <1>2 DEF LosePhone, Show, accountVars, companionVars, Deposits, CompanionKept
  <2>2. HeldIn(stored)' = NoWallet /\ Shown' = NoWallet
    BY <2>1 DEF HeldIn, Shown, Keys, WalletKeys
  <2>3. Mixed' \in {Mixed, FALSE}
    <3>1. ~overtaken'
      BY <2>1, Nothing
    <3> QED
      BY <2>1, <3>1 DEF Mixed
  <2>4. Promise!Forget
    BY <2>1, <2>2, <2>3 DEF Promise!Forget, Deposits, CompanionKept, Shown, Mixed
  <2> QED
    BY <2>4 DEF Promise!Next
<1>3. CASE LoseCompanion
  BY <1>3, SharingKeepsPromise
<1>4. CASE ClearAppData \/ DeleteUserData
  <2>1. UNCHANGED <<stored, companion, page, memory>> /\ Deposits' = Deposits
    BY <1>4 DEF ClearAppData, DeleteUserData, phoneVars, companionVars, Deposits
  <2> QED
    BY <2>1, PartingKeepsPromise
<1> QED
  BY <1>1, <1>2, <1>3, <1>4 DEF Loss

(* The other steps change no storage and no deposit, and show no address.  *)
LEMMA OthersKeepPromise ==
  ASSUME Start \/ (Setup /\ ~PersistInUserDirectory) \/ (Owner /\ ~Receive)
  PROVE  Promise!Next
<1>1. UNCHANGED <<stored, companion>> /\ Deposits' = Deposits
  <2>1. CASE Start
    BY <2>1 DEF Start, LoadLocal, LoadFromAppDirectory, LoadFromUserDirectory, LoadNothing,
                LoadFromEmptyFolder, LoadFails, KeepAll, KeepPhone, accountVars, companionVars, Deposits
  <2>2. CASE Setup /\ ~PersistInUserDirectory
    BY <2>2 DEF Setup, PersistInAppDirectory, GetDirectoryOrCreate, PersistLocally,
                PersistLocallyUnmounted, accountVars, companionVars, Deposits
  <2>3. CASE Owner /\ ~Receive
    BY <2>3 DEF Owner, Launch, EnterPassword, RetryPassword, TryRemote, SignedIn, NewWallet, BackUp,
                Leave, ScanCompanion, Done, RecoverOver, GivePassword, DecryptAndSave,
                LeaveDeciphering, WrongPassword, KeepAll, KeepPhone, accountVars, companionVars,
                Deposits
  <2> QED
    BY <2>1, <2>2, <2>3
<1>2. page' # "receiving" \/ UNCHANGED <<page, memory>>
  <2>1. CASE Start
    BY <2>1 DEF Start, LoadLocal, LoadFromAppDirectory, LoadFromUserDirectory, LoadNothing,
                LoadFromEmptyFolder, LoadFails, Branch, Turn, Show
  <2>2. CASE Setup /\ ~PersistInUserDirectory
    BY <2>2 DEF Setup, PersistInAppDirectory, GetDirectoryOrCreate, PersistLocally,
                PersistLocallyUnmounted, Proceeds, Turn, Show
  <2>3. CASE Owner /\ ~Receive
    BY <2>3 DEF Owner, Launch, EnterPassword, RetryPassword, TryRemote, SignedIn, NewWallet, BackUp,
                Leave, Back, ScanCompanion, Done, RecoverOver, GivePassword, DecryptAndSave,
                LeaveDeciphering, WrongPassword, Turn, Show
  <2> QED
    BY <2>1, <2>2, <2>3
<1> QED
  BY <1>1, <1>2, PartingKeepsPromise

(* A wallet is kept by a phone only once its second seed is deposited with *)
(* the remote account, a companion holds only a deposited wallet, and an   *)
(* address is shown only of the wallet the phone keeps.                    *)
THEOREM SpecKeepsPromise == Spec => KeepsPromise
<1>1. Init => Promise!Init
  BY DEF Init, Promise!Init, HeldIn, NoCopy, Absent, Keys, WalletKeys
<1>2. CustodyInv /\ CustodyInv' /\ [Next]_vars => [Promise!Next]_(Promise!vars)
  <2> SUFFICES ASSUME CustodyInv, CustodyInv', [Next]_vars
               PROVE  [Promise!Next]_(Promise!vars)
    OBVIOUS
  <2>1. CASE Flush
    BY <2>1, FlushKeepsPromise
  <2>2. CASE CompanionSaves
    BY <2>2, SharingKeepsPromise
  <2>3. CASE PersistInUserDirectory
    BY <2>3, DepositKeepsPromise
  <2>4. CASE Loss
    BY <2>4, LossKeepsPromise
  <2>5. CASE Start \/ (Setup /\ ~PersistInUserDirectory) \/ (Owner /\ ~Receive)
    BY <2>5, OthersKeepPromise
  <2>6. CASE Receive
    BY <2>6, ReceiveKeepsPromise
  <2>7. CASE UNCHANGED vars
    BY <2>7 DEF vars, phoneVars, accountVars, companionVars, Promise!vars
  <2> QED
    BY <2>1, <2>2, <2>3, <2>4, <2>5, <2>6, <2>7 DEF Next
<1> QED
  BY <1>1, <1>2, SpecCustodyInv, PTL DEF Spec, KeepsPromise, Promise!Spec

=============================================================================
