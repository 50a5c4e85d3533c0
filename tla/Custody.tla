------------------------------ MODULE Custody ------------------------------
(***************************************************************************)
(* Where the keys of a wallet are, from its setup to its recovery: the     *)
(* start page (start_branch.dart), the setup page (setup_new.dart), the    *)
(* exchange with a companion device (social_recovery.dart), the secure     *)
(* storage of the phone (globals.dart) and the Google Drive account        *)
(* (google_drive_remote_account.dart, google_drive_util.dart).             *)
(*                                                                         *)
(* A wallet stands for its first mnemonic, its second mnemonic and its     *)
(* second descriptor; a text is plain or sealed with a password.  The app  *)
(* can be killed between any two steps, and its owner can leave a page     *)
(* whose work then goes on behind the next ones.                           *)
(***************************************************************************)
EXTENDS Integers, Sequences

CONSTANTS
  Wallets,     (* what createNewWallet may make, each once                 *)
  NoWallet,
  Passwords,   (* words the owner may choose and remember                  *)
  NoPassword,
  MaxWrites    (* bound: a page that was left waits while that many pend   *)

ASSUME CustodyAssumption == /\ NoWallet \notin Wallets /\ NoPassword \notin Passwords
                            /\ MaxWrites \in Nat

VARIABLES
  stored,      (* the secure storage of the phone                          *)
  pending,     (* writes to it that nobody awaits, in their order          *)
  page,        (* what the phone shows, and how far it has got             *)
  memory,      (* the keys the pages hand to each other                    *)
  left,        (* a setup whose page the owner has left: how far it has    *)
               (* got, and its wallet; bound: one at a time                *)
  made,        (* wallets createNewWallet has made                         *)
  appFiles,    (* wallets with a second seed in the application directory  *)
  userFolder,  (* "Leafy Data" exists                                      *)
  userFiles,   (* wallets with a second seed in it                         *)
  deleted,     (* wallets whose second seed the owner deleted from it      *)
  companion,   (* the copy in the companion's storage                      *)
  companionRemote,   (* the copy in the companion's own account            *)
  offer,       (* the copy on the screen, sealed for the companion's page  *)
  overtaken,   (* history: a page that was left has written its wallet     *)
               (* since the keys in hand were read or written              *)
  cut          (* history: the phone was killed in the middle of writes of *)
               (* a wallet over another                                    *)

phoneVars == <<stored, pending, page, memory, left, offer, made, overtaken, cut>>
accountVars == <<appFiles, userFolder, userFiles, deleted>>
companionVars == <<companion, companionRemote>>
vars == <<phoneVars, accountVars, companionVars>>

-----------------------------------------------------------------------------
(* Texts.                                                                  *)
WalletKeys == {"firstMnemonic", "secondDescriptor", "remoteAccountId", "remoteProvider"}
Keys == WalletKeys \cup {"companionDevice"}
Words == {"account", "google", "true", "false"}
ASSUME WordsAssumption == NoWallet \notin Words
Absent == [text |-> NoWallet, password |-> NoPassword]
Plain(text) == [text |-> text, password |-> NoPassword]
encryptLeafyData(password, t) ==
  IF password = NoPassword THEN t ELSE [text |-> t.text, password |-> password]
NeedsPassword(t) == t.password # NoPassword

NoCopy == [first |-> Absent, descriptor |-> Absent]
(* The arguments of a page; "given" is the password of a recovery.         *)
KeyArguments(first, descriptor, second, password) ==
  [ first |-> first, descriptor |-> descriptor, second |-> second,
    password |-> password, given |-> password ]
NoKeys == KeyArguments(Absent, Absent, NoWallet, NoPassword)
NoTask == [page |-> "none", wallet |-> NoWallet]

(* getRecoveryWallet finds all four or nothing.                            *)
Complete == \A key \in WalletKeys : stored[key] # Absent
LocalCopy == [first |-> stored["firstMnemonic"], descriptor |-> stored["secondDescriptor"]]

(* The four writes, in the order of the code.                              *)
(* Mutant: the account is not sealed with the password.                    *)
Mutant_persistLocally(password, first, descriptor) ==
  << <<"firstMnemonic", encryptLeafyData(password, first)>>,
     <<"secondDescriptor", encryptLeafyData(password, descriptor)>>,
     <<"remoteAccountId", Plain("account")>>,
     <<"remoteProvider", Plain("google")>> >>
persistLocally(password, first, descriptor) ==
  << <<"firstMnemonic", encryptLeafyData(password, first)>>,
     <<"secondDescriptor", encryptLeafyData(password, descriptor)>>,
     <<"remoteAccountId", encryptLeafyData(password, Plain("account"))>>,
     <<"remoteProvider", Plain("google")>> >>

Init ==
  /\ stored = [key \in Keys |-> Absent] /\ pending = << >>
  /\ page = "off" /\ memory = NoKeys /\ left = NoTask /\ made = {}
  /\ appFiles = {} /\ userFolder = FALSE /\ userFiles = {} /\ deleted = {}
  /\ companion = NoCopy /\ companionRemote = NoCopy /\ offer = NoCopy
  /\ overtaken = FALSE /\ cut = FALSE

(* The phone goes from one page to another, with what it then holds.       *)
Show(next, keys) ==
  /\ page' = next /\ memory' = keys
  /\ overtaken' = (overtaken /\ keys.first # Absent)
  /\ offer' = NoCopy
Turn(next) == Show(next, memory)
KeepPhone == UNCHANGED <<stored, pending, left, made, cut>>
KeepAll == KeepPhone /\ UNCHANGED <<accountVars, companionVars>>

-----------------------------------------------------------------------------
(* The storage, and what happens to the phone.                             *)
Flush ==
  /\ pending # << >>
  /\ stored' = [stored EXCEPT ![Head(pending)[1]] = Head(pending)[2]]
  /\ pending' = Tail(pending)
  /\ UNCHANGED <<page, memory, left, offer, made, overtaken, cut, accountVars, companionVars>>

(* The home page stays below every other one.                              *)
Launch == page \in {"off", "home"} /\ Turn("loadingLocal") /\ KeepAll

(* Some writes have replaced values of a whole wallet.                     *)
HalfReplaced ==
  /\ Complete
  /\ pending # << >>
  /\ Head(pending)[1] \in WalletKeys \ {"firstMnemonic"}

Kill ==
  /\ page # "off"
  /\ Show("off", NoKeys)
  /\ pending' = << >> /\ left' = NoTask
  /\ cut' = (cut \/ HalfReplaced)
  /\ UNCHANGED <<stored, made, accountVars, companionVars>>

(* A new phone of the same owner.                                          *)
LosePhone ==
  /\ Show("off", NoKeys)
  /\ stored' = [key \in Keys |-> Absent]
  /\ pending' = << >> /\ left' = NoTask
  /\ UNCHANGED <<made, cut, accountVars, companionVars>>

(* The owner deletes the hidden data of the app from the account.          *)
ClearAppData ==
  /\ appFiles # {}
  /\ appFiles' = {}
  /\ UNCHANGED <<phoneVars, userFolder, userFiles, deleted, companionVars>>

(* The owner deletes what is in the folder, or the folder, for good, and   *)
(* not while a setup is about to write there.                              *)
DeleteUserData ==
  /\ userFolder
  /\ page # "backingUpUser" /\ left.page # "backingUpUser"
  /\ userFolder' \in {FALSE, userFiles # {}}
  /\ userFiles' = {}
  /\ deleted' = deleted \cup userFiles
  /\ UNCHANGED <<phoneVars, appFiles, companionVars>>

(* The back button.  A page that was opened at the wallet goes back to it; *)
(* else it is the home page, and what the page began goes on.              *)
BackingUp == {"backingUpApp", "backingUpFolder", "backingUpUser", "backingUpLocally"}
OverWallet == page \in {"receiving", "recovery", "walletPassword", "offering"} /\ memory.first # Absent
Back ==
  IF OverWallet
  THEN Show("wallet", KeyArguments(memory.first, memory.descriptor, memory.second, memory.password))
  ELSE Show("home", NoKeys)
Leave ==
  /\ page \notin {"off", "home"}
  /\ Back
  /\ IF page \in BackingUp
     THEN left = NoTask /\ left' = [page |-> page, wallet |-> memory.second]
     ELSE UNCHANGED left
  /\ UNCHANGED <<stored, pending, made, cut, accountVars, companionVars>>

-----------------------------------------------------------------------------
(* The start page.  Its reads are queued behind the writes.                *)
LoadLocal ==
  /\ page = "loadingLocal"
  /\ pending = << >>
  /\ IF ~Complete THEN Turn("noLocal")
     ELSE Show(IF NeedsPassword(stored["firstMnemonic"]) THEN "localNeedDecrypting"
                                                         ELSE "localDecryptedNeedRemote",
               [ first |-> stored["firstMnemonic"], descriptor |-> stored["secondDescriptor"],
                 second |-> NoWallet, password |-> NoPassword,
                 given |-> stored["remoteAccountId"].password ])
  /\ KeepAll

(* decryptWallet opens all three texts that were read, or nothing; until   *)
(* then "given" is what the third of them was sealed with.                 *)
Decrypts(password) ==
  /\ password # NoPassword
  /\ memory.first.password = password
  /\ memory.descriptor.password = password
  /\ memory.given = password

EnterPassword ==
  /\ page = "localNeedDecrypting"
  /\ \E password \in Passwords \cup {NoPassword} :
       IF Decrypts(password)
       THEN Show("localDecryptedNeedRemote",
                 KeyArguments(Plain(memory.first.text), Plain(memory.descriptor.text),
                              NoWallet, password))
       ELSE Turn("localFailedDecryption")
  /\ KeepAll

RetryPassword == page = "localFailedDecryption" /\ Turn("localNeedDecrypting") /\ KeepAll

TryRemote == page = "noLocal" /\ Turn("noLocalFoundRemote") /\ KeepAll

(* An account, or none, or an exception: then the page pops itself.        *)
SignedIn ==
  /\ page \in {"localDecryptedNeedRemote", "noLocalFoundRemote"}
  /\ Turn("loadingRemote") \/ Show("home", NoKeys)
  /\ KeepAll

(* _loadFromRemote with the content of one file: it decrypts if it belongs *)
(* to the first mnemonic.                                                  *)
(* Mutant: whatever the file contains is taken for the second mnemonic.    *)
Mutant_Branch(content) ==
  IF memory.first = Absent THEN Turn("walletPassword")
  ELSE IF content # NoWallet
  THEN Show("wallet", KeyArguments(memory.first, memory.descriptor, content, memory.password))
  ELSE Turn("timelock")
Branch(content) ==
  IF memory.first = Absent THEN Turn("walletPassword")
  ELSE IF content # NoWallet /\ content = memory.first.text
  THEN Show("wallet", KeyArguments(memory.first, memory.descriptor, content, memory.password))
  ELSE Turn("timelock")

LoadFromAppDirectory ==
  /\ page = "loadingRemote"
  /\ \E content \in appFiles : Branch(content)
  /\ KeepAll

(* Restored to the application directory by a call that nobody awaits, and *)
(* also if the page was left meanwhile.                                    *)
LoadFromUserDirectory ==
  /\ page = "loadingRemote"
  /\ appFiles = {}
  /\ \E content \in userFiles :
       /\ Branch(content) \/ Show("home", NoKeys)
       /\ \/ appFiles' = appFiles \cup {content}
          \/ UNCHANGED appFiles
  /\ KeepPhone
  /\ UNCHANGED <<userFolder, userFiles, deleted, companionVars>>

LoadNothing ==
  /\ page = "loadingRemote"
  /\ appFiles = {} /\ ~userFolder
  /\ Branch(NoWallet)
  /\ KeepAll

(* A folder without the file: files.first throws an Error, which is not an *)
(* Exception, and the page goes on loading.                                *)
LoadFromEmptyFolder ==
  /\ page = "loadingRemote"
  /\ appFiles = {} /\ userFolder /\ userFiles = {}
  /\ Turn("stuck")
  /\ KeepAll

LoadFails == page = "loadingRemote" /\ Show("home", NoKeys) /\ KeepAll

-----------------------------------------------------------------------------
(* The setup page.                                                         *)
NewWallet ==
  /\ page = "noLocal"
  /\ \E w \in Wallets \ made :
       /\ made' = made \cup {w}
       /\ Show("readyForBackup", KeyArguments(Plain(w), Plain(w), w, NoPassword))
  /\ UNCHANGED <<stored, pending, left, cut, accountVars, companionVars>>

(* Signed in; otherwise the page is ready again.                           *)
BackUp == page = "readyForBackup" /\ Turn("backingUpApp") /\ KeepAll

(* The setup of a wallet goes on, on its page or after it was left.        *)
Proceeds(w, step, next) ==
  \/ /\ page = step /\ memory.second = w
     /\ Turn(next) /\ UNCHANGED left
  \/ /\ left.page = step /\ left.wallet = w
     /\ left' = IF next = "backupLost" THEN NoTask ELSE [page |-> next, wallet |-> w]
     /\ UNCHANGED <<page, memory, offer, overtaken>>

(* An exception of persistRemotely ends in a future that nobody awaits:    *)
(* the page goes on backing up.  The write may have taken place.           *)
PersistInAppDirectory ==
  \E w \in made :
    /\ \/ appFiles' = appFiles \cup {w} /\ Proceeds(w, "backingUpApp", "backingUpFolder")
       \/ appFiles' \in {appFiles, appFiles \cup {w}} /\ Proceeds(w, "backingUpApp", "backupLost")
    /\ UNCHANGED <<stored, pending, made, cut, userFolder, userFiles, deleted, companionVars>>

(* A folder that exists without the file is one that cannot be used.       *)
GetDirectoryOrCreate ==
  \E w \in made :
    /\ \/ /\ userFolder => userFiles # {}
          /\ userFolder' = TRUE /\ Proceeds(w, "backingUpFolder", "backingUpUser")
       \/ userFolder' \in {userFolder, TRUE} /\ Proceeds(w, "backingUpFolder", "backupLost")
    /\ UNCHANGED <<stored, pending, made, cut, appFiles, userFiles, deleted, companionVars>>

(* Mutant: the local half does not wait for the answer.                    *)
Mutant_PersistInUserDirectory ==
  \E w \in made :
    /\ userFiles' \in {userFiles, userFiles \cup {w}}
    /\ Proceeds(w, "backingUpUser", "backingUpLocally")
    /\ UNCHANGED <<stored, pending, made, cut, appFiles, userFolder, deleted, companionVars>>
PersistInUserDirectory ==
  \E w \in made :
    /\ \/ userFiles' = userFiles \cup {w} /\ Proceeds(w, "backingUpUser", "backingUpLocally")
       \/ userFiles' \in {userFiles, userFiles \cup {w}} /\ Proceeds(w, "backingUpUser", "backupLost")
    /\ UNCHANGED <<stored, pending, made, cut, appFiles, userFolder, deleted, companionVars>>

(* The password is the one the owner has chosen by now.                    *)
PersistLocally ==
  /\ page = "backingUpLocally"
  /\ \E password \in Passwords \cup {NoPassword} :
       /\ pending' = pending \o persistLocally(password, memory.first, memory.descriptor)
                             \o << <<"companionDevice", Plain("false")>> >>
       /\ page' = "wallet"
       /\ memory' = KeyArguments(memory.first, memory.descriptor, memory.second, password)
       /\ overtaken' = FALSE
  /\ UNCHANGED <<stored, left, offer, made, cut, accountVars, companionVars>>

(* A setup that was left writes as well, with the last password it had; it *)
(* opens no page then, and resets no flag.                                 *)
PersistLocallyUnmounted ==
  /\ left.page = "backingUpLocally"
  /\ Len(pending) < MaxWrites
  /\ \E password \in Passwords \cup {NoPassword} :
       pending' = pending \o persistLocally(password, Plain(left.wallet), Plain(left.wallet))
  /\ left' = NoTask
  /\ overtaken' = (memory.first # Absent)
  /\ UNCHANGED <<stored, page, memory, offer, made, cut, accountVars, companionVars>>

-----------------------------------------------------------------------------
(* The companion device.  Its page makes a key pair, and what was sealed   *)
(* for the page cannot be opened after it.  The local write is awaited by  *)
(* nobody, and lost if the companion's app is killed; the copy in its      *)
(* account is an option of its owner, and may fail.                        *)
CompanionSaves ==
  /\ offer # NoCopy
  /\ companion' \in {companion, offer}
  /\ companionRemote' \in {companionRemote, offer}
  /\ UNCHANGED <<phoneVars, accountVars>>

LoseCompanion ==
  /\ companion' = NoCopy
  /\ UNCHANGED <<phoneVars, accountVars, companionRemote>>

(* What the companion answers: its local copy, or the one in its account.  *)
CompanionCopy == IF companion # NoCopy THEN companion ELSE companionRemote

-----------------------------------------------------------------------------
(* The wallet page: receiving, the setup of a companion, recovery.         *)
(* Mutant: the address is shown whatever the storage says.                 *)
Mutant_Receive == page = "wallet" /\ Turn("receiving") /\ KeepAll
Receive ==
  /\ page = "wallet"
  /\ pending = << >>
  /\ stored["companionDevice"] = Plain("true")
  /\ Turn("receiving")
  /\ KeepAll

(* The copy is of the storage and not of the page.                         *)
(* Mutant: the storage is read as far as it is written.                    *)
Mutant_ScanCompanion ==
  /\ page = "wallet"
  /\ page' = "offering" /\ offer' = LocalCopy
  /\ UNCHANGED <<memory, overtaken>>
  /\ KeepAll
ScanCompanion ==
  /\ page = "wallet"
  /\ pending = << >>
  /\ Complete
  /\ page' = "offering" /\ offer' = LocalCopy
  /\ UNCHANGED <<memory, overtaken>>
  /\ KeepAll

(* Whether the companion has scanned it is for the owner to know.          *)
Done ==
  /\ page = "offering"
  /\ pending' = Append(pending, <<"companionDevice", Plain("true")>>)
  /\ Turn("wallet")
  /\ UNCHANGED <<stored, left, made, cut, accountVars, companionVars>>

RecoverOver == page = "wallet" /\ Turn("recovery") /\ KeepAll

GivePassword ==
  /\ page = "walletPassword"
  /\ \E password \in Passwords \cup {NoPassword} :
       Show("recovery", [ first |-> memory.first, descriptor |-> memory.descriptor,
                          second |-> memory.second, password |-> memory.password,
                          given |-> password ])
  /\ KeepAll

(* The companion seals its copy for this page, which opens it.             *)
Opens(copy, password) ==
  /\ copy # NoCopy
  /\ password \in {NoPassword, copy.first.password}
  /\ password \in {NoPassword, copy.descriptor.password}
DecryptAndSave ==
  /\ page = "recovery"
  /\ Opens(CompanionCopy, memory.given)
  /\ pending' = pending \o persistLocally(memory.given, CompanionCopy.first, CompanionCopy.descriptor)
  /\ Show("home", NoKeys)
  /\ UNCHANGED <<stored, left, made, cut, accountVars, companionVars>>

(* It is left, for the wallet it was opened at, while it deciphers the     *)
(* copy; that is done before the owner does anything else.                 *)
LeaveDeciphering ==
  /\ page = "recovery" /\ memory.first # Absent
  /\ Opens(CompanionCopy, memory.given)
  /\ Len(pending) < MaxWrites
  /\ pending' = pending \o persistLocally(memory.given, CompanionCopy.first, CompanionCopy.descriptor)
  /\ page' = "wallet" /\ overtaken' = TRUE
  /\ memory' = KeyArguments(memory.first, memory.descriptor, memory.second, memory.password)
  /\ UNCHANGED <<stored, left, offer, made, cut, accountVars, companionVars>>

WrongPassword ==
  /\ page = "recovery"
  /\ CompanionCopy # NoCopy
  /\ ~Opens(CompanionCopy, memory.given)
  /\ Turn("walletPassword")
  /\ KeepAll

-----------------------------------------------------------------------------
Start == LoadLocal \/ LoadFromAppDirectory \/ LoadFromUserDirectory \/ LoadNothing
         \/ LoadFromEmptyFolder \/ LoadFails
Setup == PersistInAppDirectory \/ GetDirectoryOrCreate \/ PersistInUserDirectory \/ PersistLocally
         \/ PersistLocallyUnmounted
Owner == Launch \/ EnterPassword \/ RetryPassword \/ TryRemote \/ SignedIn \/ NewWallet \/ BackUp
         \/ Leave \/ Receive \/ ScanCompanion \/ Done \/ RecoverOver
         \/ GivePassword \/ DecryptAndSave \/ LeaveDeciphering \/ WrongPassword
Loss == Kill \/ LosePhone \/ LoseCompanion \/ ClearAppData \/ DeleteUserData

Next == Flush \/ Start \/ Setup \/ Owner \/ CompanionSaves \/ Loss

Spec == Init /\ [][Next]_vars

-----------------------------------------------------------------------------
Pages == BackingUp \cup
  {"off", "home", "loadingLocal", "noLocal", "noLocalFoundRemote", "localNeedDecrypting",
   "localFailedDecryption", "localDecryptedNeedRemote", "loadingRemote", "stuck",
   "readyForBackup", "backupLost", "wallet", "receiving", "offering", "walletPassword",
   "recovery", "timelock"}
Text == [text : Wallets \cup Words \cup {NoWallet}, password : Passwords \cup {NoPassword}]
Secret == [text : Wallets \cup {NoWallet}, password : Passwords \cup {NoPassword}]
Copy == [first : Secret, descriptor : Secret]
Arguments == [ first : Secret, descriptor : Secret, second : Wallets \cup {NoWallet},
               password : Passwords \cup {NoPassword}, given : Passwords \cup {NoPassword} ]

(* Types; a copy has both of its texts, or is none.                        *)
TypeOK ==
  /\ stored \in [Keys -> Text]
  /\ pending \in Seq(Keys \X Text)
  /\ page \in Pages
  /\ memory \in Arguments
  /\ left \in [page : BackingUp \cup {"none"}, wallet : Wallets \cup {NoWallet}]
  /\ made \subseteq Wallets /\ appFiles \cup userFiles \cup deleted \subseteq made
  /\ {userFolder, overtaken, cut} \subseteq BOOLEAN
  /\ \A copy \in {companion, companionRemote, offer} :
       copy \in Copy /\ (copy.first = Absent <=> copy.descriptor = Absent)

(* The wallet the phone keeps whole: four values, of one wallet, that open *)
(* with one password or with none.                                         *)
HeldIn(storage) ==
  IF /\ \A key \in WalletKeys : storage[key] # Absent
     /\ storage["firstMnemonic"].text = storage["secondDescriptor"].text
     /\ \A key \in {"secondDescriptor", "remoteAccountId"} :
          storage[key].password = storage["firstMnemonic"].password
  THEN storage["firstMnemonic"].text ELSE NoWallet

(* A wallet page has the three keys of one wallet, whatever was killed,    *)
(* left, overwritten or found first in the account, but for writes of a    *)
(* wallet over another that were cut.                                      *)
OneWallet ==
  page = "wallet" /\ ~cut =>
    memory.first.text = memory.second /\ memory.descriptor.text = memory.second

(* Only an owner who has deleted the second seed of the wallet found on    *)
(* the phone meets the folder without a file that makes a start hang: a    *)
(* setup that was killed early left no wallet on the phone.  And only such *)
(* an owner, or one who has made another wallet, is sent to the timelock   *)
(* recovery.                                                               *)
KnownWalletStarts ==
  /\ page = "stuck" => memory.first.text \in deleted \cup {NoWallet}
  /\ page = "timelock" => memory.first.text \in deleted \/ \E w \in made : w # memory.first.text

(* The storage once the queued writes are made.                            *)
Queued(queue, key) == {n \in DOMAIN queue : queue[n][1] = key}
Settled(storage, queue) == [key \in Keys |->
  IF Queued(queue, key) = {} THEN storage[key]
  ELSE queue[CHOOSE n \in Queued(queue, key) : \A m \in Queued(queue, key) : m <= n][2]]

(* A wallet whose page is open is the wallet the phone keeps, once the     *)
(* writes that nobody awaits are made, but for a page that was left and    *)
(* wrote another one behind it.                                            *)
WrittenBehind ==
  page = "wallet" /\ ~cut /\ ~overtaken => HeldIn(Settled(stored, pending)) = memory.second

(* Custody keeps what Backup promises.                                     *)
Promise == INSTANCE Backup WITH
  deposited <- userFiles \cup deleted, phone <- HeldIn(stored),
  companion <- IF companion.first.text = companion.descriptor.text THEN companion.first.text
                                                                   ELSE NoWallet,
  shown <- IF page = "receiving" THEN memory.first.text ELSE NoWallet,
  mixed <- cut \/ overtaken
KeepsPromise == Promise!Spec

=============================================================================
