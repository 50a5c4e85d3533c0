------------------------------ MODULE Signing ------------------------------
(***************************************************************************)
(* CreateAndSignTransaction and CreateAndSignRecoveryTransaction of        *)
(* leafy.go, from the transaction CreateTransaction gave them: look for    *)
(* the keys of its inputs (findSigningKeys, findSigningRecoveryKeys), then *)
(* sign every input.                                                       *)
(*                                                                         *)
(* An address of the wallet is the index of the key it is made of, an      *)
(* input is the address that owns the utxo it spends; an input whose       *)
(* address is not the wallet's is Foreign.  One step is one derived key,   *)
(* one check between two batches of keys, or one signed input.             *)
(***************************************************************************)
EXTENDS Integers, Sequences, FiniteSets, Bip44

CONSTANTS
  InputLists,   (* what the inputs of a transaction may be owned by        *)
  Foreign,      (* the address of an input that is not the wallet's        *)
  Batches,      (* 10: batches of keys that are tried                      *)
  BatchSize,    (* 100: keys in a batch, as the loop's bounds intend it    *)
  ByteSize,     (* 256: the loop counts in a uint8                         *)
  Timelock,     (* 52560 blocks, the relative timelock of a recovery       *)
  FinalSequence (* the sequence number of an input without a timelock      *)

ASSUME BatchAssumption == /\ Batches \in Nat \ {0} /\ BatchSize \in Nat \ {0}
                          /\ ByteSize \in Nat /\ BatchSize < ByteSize
                          /\ Batches * BatchSize < HardenedKeyStart
ASSUME InputAssumption == /\ Foreign \notin Nat
                          /\ InputLists \subseteq Seq(Nat \cup {Foreign})
ASSUME SequenceAssumption == Timelock # FinalSequence

VARIABLES
  pc,         (* "start", "derive", "sign", "signed" or "failed"           *)
  mode,       (* "spend" with both mnemonics, "recover" with the first one *)
              (* and the descriptor of the second                          *)
  inputs,     (* the owner of each input of the transaction                *)
  sequences,  (* the sequence number of each input                         *)
  batch,      (* i of the outer loop                                       *)
  j,          (* of the inner loop, a uint8                                *)
  sibling,    (* index of firstKey and secondKey                           *)
  mapping,    (* the addresses a key was found for                         *)
  witnesses   (* what was signed so far, an input after the other          *)

transaction == <<mode, inputs, sequences>>
vars == <<pc, mode, inputs, sequences, batch, j, sibling, mapping, witnesses>>

(* uint8(i*100) and uint8(i*100)+100, the bounds of the inner loop.        *)
(* Mutants: the bounds are computed in a wider type than the counter.      *)
Mutant_First(i) == i * BatchSize
First(i) == (i * BatchSize) % ByteSize
Mutant_Last(i) == First(i) + BatchSize
Last(i) == (First(i) + BatchSize) % ByteSize

-----------------------------------------------------------------------------
Init ==
  /\ mode \in {"spend", "recover"}
  /\ inputs \in InputLists
  /\ sequences = [n \in DOMAIN inputs |-> FinalSequence]
  /\ pc = "start"
  /\ batch = 0
  /\ j = First(0)
  /\ sibling = Path(0)
  /\ mapping = {}
  /\ witnesses = << >>

(* A recovery gives every input the timelock before anything is signed.    *)
(* Mutant: only the first input gets it.                                   *)
Mutant_BeginSearch ==
  /\ pc = "start"
  /\ sequences' = [n \in DOMAIN inputs |->
                     IF mode = "recover" /\ n = 1 THEN Timelock ELSE sequences[n]]
  /\ pc' = "derive"
  /\ UNCHANGED <<mode, inputs, batch, j, sibling, mapping, witnesses>>

BeginSearch ==
  /\ pc = "start"
  /\ sequences' = [n \in DOMAIN inputs |->
                     IF mode = "recover" THEN Timelock ELSE sequences[n]]
  /\ pc' = "derive"
  /\ UNCHANGED <<mode, inputs, batch, j, sibling, mapping, witnesses>>

AllOwned(owners) == \A n \in DOMAIN inputs : inputs[n] \in owners
InBatch == pc = "derive" /\ batch < Batches /\ j < Last(batch)
BatchDone == pc = "derive" /\ batch < Batches /\ j >= Last(batch)
AllMapped == AllOwned(mapping)

DeriveKey ==
  /\ InBatch
  /\ mapping' = mapping \cup {sibling}
  /\ sibling' = NextSibling(sibling)
  /\ j' = (j + 1) % ByteSize
  /\ UNCHANGED <<pc, transaction, batch, witnesses>>

(* continue outer: the next batch goes on from the key this one stopped at.*)
(* Mutant: it starts at the key its number asks for.                       *)
Mutant_NextBatch ==
  /\ BatchDone
  /\ ~AllMapped
  /\ batch' = batch + 1
  /\ j' = First(batch + 1)
  /\ sibling' = (batch + 1) * BatchSize
  /\ UNCHANGED <<pc, transaction, mapping, witnesses>>

NextBatch ==
  /\ BatchDone
  /\ ~AllMapped
  /\ batch' = batch + 1
  /\ j' = First(batch + 1)
  /\ UNCHANGED <<pc, transaction, sibling, mapping, witnesses>>

KeysFound ==
  /\ BatchDone
  /\ AllMapped
  /\ pc' = "sign"
  /\ UNCHANGED <<transaction, batch, j, sibling, mapping, witnesses>>

(* Mutant: the last batch is not tried.                                    *)
Mutant_KeysNotFound ==
  /\ pc = "derive"
  /\ batch = Batches - 1
  /\ pc' = "failed"
  /\ UNCHANGED <<transaction, batch, j, sibling, mapping, witnesses>>

KeysNotFound ==
  /\ pc = "derive"
  /\ batch = Batches
  /\ pc' = "failed"
  /\ UNCHANGED <<transaction, batch, j, sibling, mapping, witnesses>>

(* A signature is made with the key of the owner of the input, and commits *)
(* to the sequence number the input has when it is signed.                 *)
Signature(n) == [ key      |-> inputs[n],
                  sequence |-> sequences[n],
                  spends   |-> IF mode = "recover" THEN "script" ELSE "key" ]

(* The lookup of the key never fails: the search has found all of them.    *)
SignInput ==
  /\ pc = "sign"
  /\ Len(witnesses) < Len(inputs)
  /\ inputs[Len(witnesses) + 1] \in mapping
  /\ witnesses' = Append(witnesses, Signature(Len(witnesses) + 1))
  /\ UNCHANGED <<pc, transaction, batch, j, sibling, mapping>>

Finish ==
  /\ pc = "sign"
  /\ Len(witnesses) = Len(inputs)
  /\ pc' = "signed"
  /\ UNCHANGED <<transaction, batch, j, sibling, mapping, witnesses>>

Next ==
  \/ BeginSearch
  \/ DeriveKey
  \/ NextBatch
  \/ KeysFound
  \/ KeysNotFound
  \/ SignInput
  \/ Finish

(* A function call runs to its return.                                     *)
Spec == Init /\ [][Next]_vars /\ WF_vars(Next)

-----------------------------------------------------------------------------
(* Types of the variables; j keeps the width of a uint8.                   *)
TypeOK ==
  /\ pc \in {"start", "derive", "sign", "signed", "failed"}
  /\ mode \in {"spend", "recover"}
  /\ inputs \in InputLists
  /\ sequences \in [DOMAIN inputs -> {Timelock, FinalSequence}]
  /\ batch \in 0 .. Batches
  /\ j \in 0 .. ByteSize - 1
  /\ sibling \in Nat
  /\ mapping \subseteq Nat
  /\ Len(witnesses) \in 0 .. Len(inputs)

(* The batches whose upper bound has wrapped below the lower one are empty *)
Empty(i) == Last(i) < First(i)
KeysBefore(i) == BatchSize * Cardinality({k \in 0 .. i - 1 : ~Empty(k)})
Reach == KeysBefore(Batches)

(* The keys derived are the first of the wallet, without a hole, and the   *)
(* search never gets past Reach of them.                                   *)
ConsecutiveKeys ==
  /\ mapping = 0 .. sibling - 1
  /\ sibling <= Reach
  /\ pc = "derive" /\ BatchDone => sibling = KeysBefore(batch + 1)

(* A transaction is signed if and only if Reach keys suffice for it: a     *)
(* utxo of the wallet beyond them can neither be spent nor recovered.      *)
OutcomeIsReach ==
  /\ pc = "signed" => AllOwned(0 .. Reach - 1)
  /\ pc = "failed" => ~AllOwned(0 .. Reach - 1)

(* Every witness of a signed transaction is of the owner of its input and  *)
(* commits to the sequence number the input is sent with; in a recovery    *)
(* that is the timelock the script asks for.                               *)
WitnessesValid ==
  pc = "signed" =>
    /\ Len(witnesses) = Len(inputs)
    /\ \A n \in DOMAIN inputs :
         /\ witnesses[n].key = inputs[n]
         /\ witnesses[n].sequence = sequences[n]
         /\ witnesses[n].spends = "script" => sequences[n] = Timelock
         /\ mode = "recover" <=> witnesses[n].spends = "script"

(* The search and the signing end.                                         *)
Returns == <>(pc \in {"signed", "failed"})

-----------------------------------------------------------------------------
(* leafy.go:174 and 322: "Leafy uses up to 1000 addresses".  The search    *)
(* fails only for an input outside the first Batches * BatchSize of them.  *)
UpToAllAddresses == pc = "failed" => ~AllOwned(0 .. Batches * BatchSize - 1)

=============================================================================
