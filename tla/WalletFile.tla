----------------------------- MODULE WalletFile -----------------------------
(***************************************************************************)
(* Saving a wallet and opening it again (wallet.go): Wallet.Save copies    *)
(* the list of accounts under the read lock, then marshals the accounts    *)
(* the list points to and writes the file without it.  An existing file is *)
(* replaced through path~ and a rename, a new one is written in place.     *)
(* The process may stop at any moment and the program opens the file       *)
(* again.  File names refer to inodes: a file that is open is written to   *)
(* whatever its name has become.                                           *)
(***************************************************************************)
EXTENDS Wallet

CONSTANTS
    Savers,      \* goroutines that call Save
    MaxOps,      \* bound: operations on the wallet since it was empty
    SaveAlone    \* the program calls no other operation during a Save

ASSUME SavingAssumption ==
    /\ Savers # {} /\ IsFiniteSet(Savers)
    /\ MaxOps \in Nat
    /\ SaveAlone \in BOOLEAN

VARIABLES
    running,   \* the process is up and has the wallet in memory
    version,   \* operations that led to the wallet in memory
    pc,        \* pc[s]: where saver s stands in Save
    list,      \* list[s]: walletData.Accounts, the pointers not yet marshalled
    data,      \* data[s]: the text marshalled so far
    name,      \* name[s]: the file name s writes to
    open,      \* open[s]: the inode s writes to, or NoInode
    dir,       \* dir[n]: the inode name n refers to, or NoInode
    content,   \* content[i]: the text in inode i
    saved      \* version of the last Save that returned without an error

saverVars == <<pc, list, data, name, open>>
diskVars == <<dir, content>>
fileVars == <<running, version, saverVars, diskVars, saved>>
allVars == <<vars, fileVars>>

Names == {"path", "path~"}
NoInode == 0
Inodes == 1..(Cardinality(Savers) + 2)

\* A file is empty or cut short, a mix of two writes, or a whole text.
Torn == [whole |-> FALSE, version |-> 0, records |-> <<>>]
Mixed == [whole |-> FALSE, version |-> 1, records |-> <<>>]
Text(v, recs) == [whole |-> TRUE, version |-> v, records |-> recs]

Unused == {i \in Inodes : i \notin ToSet(<<dir["path"], dir["path~"]>>) /\ \A s \in Savers : open[s] # i}
Saving == \E s \in Savers : pc[s] # "idle"

FileInit ==
    /\ Init
    /\ running = TRUE
    /\ version = 0
    /\ pc = [s \in Savers |-> "idle"]
    /\ list = [s \in Savers |-> <<>>]
    /\ data = [s \in Savers |-> Torn]
    /\ name = [s \in Savers |-> "path"]
    /\ open = [s \in Savers |-> NoInode]
    /\ dir = [n \in Names |-> NoInode]
    /\ content = [i \in Inodes |-> Torn]
    /\ saved = 0

\* An operation of module Wallet.
Operation ==
    /\ running /\ version < MaxOps
    /\ SaveAlone => ~Saving
    /\ Next
    /\ version' = version + 1
    /\ UNCHANGED <<running, saverVars, diskVars, saved>>

-----------------------------------------------------------------------------
(* Save, step by step. *)

\* Under the read lock.
Save(s) ==
    /\ running /\ pc[s] = "idle"
    /\ list' = [list EXCEPT ![s] = accounts]
    /\ data' = [data EXCEPT ![s] = Text(version, <<>>)]
    /\ pc' = [pc EXCEPT ![s] = "key"]
    /\ UNCHANGED <<vars, running, version, name, open, diskVars, saved>>

\* json.Marshal reads an account's encrypted key ...
MarshalKey(s) ==
    /\ pc[s] = "key" /\ list[s] # <<>>
    /\ data' = [data EXCEPT ![s].records =
                   Append(@, [object |-> Head(list[s]), key |-> password[Head(list[s])]])]
    /\ pc' = [pc EXCEPT ![s] = "rest"]
    /\ UNCHANGED <<vars, running, version, list, name, open, diskVars, saved>>

\* ... and then its salt and the fields of AccountData.
MarshalRest(s) ==
    LET o == Head(list[s]) IN
    /\ pc[s] = "rest"
    /\ data' = [data EXCEPT ![s].records[Len(data[s].records)] =
                   [object |-> o, key |-> @.key, salt |-> password[o], label |-> label[o],
                    sigSch |-> sigSch[o], isDefault |-> isDefault[o]]]
    /\ list' = [list EXCEPT ![s] = Tail(@)]
    /\ pc' = [pc EXCEPT ![s] = "key"]
    /\ UNCHANGED <<vars, running, version, name, open, diskVars, saved>>

\* Mutated form: the file is always written in place.
FileExistedNever(s) ==
    /\ pc[s] = "key" /\ list[s] = <<>>
    /\ name' = [name EXCEPT ![s] = "path"]
    /\ pc' = [pc EXCEPT ![s] = "open"]
    /\ UNCHANGED <<vars, running, version, list, data, open, diskVars, saved>>

FileExisted(s) ==
    /\ pc[s] = "key" /\ list[s] = <<>>
    /\ name' = [name EXCEPT ![s] = IF dir["path"] = NoInode THEN "path" ELSE "path~"]
    /\ pc' = [pc EXCEPT ![s] = "open"]
    /\ UNCHANGED <<vars, running, version, list, data, open, diskVars, saved>>

\* ioutil.WriteFile opens the file, which truncates or creates it, ...
Open(s) ==
    /\ pc[s] = "open"
    /\ \E i \in IF dir[name[s]] = NoInode THEN {Min(Unused)} ELSE {dir[name[s]]} :
          /\ dir' = [dir EXCEPT ![name[s]] = i]
          /\ content' = [content EXCEPT ![i] = Torn]
          /\ open' = [open EXCEPT ![s] = i]
    /\ pc' = [pc EXCEPT ![s] = "write"]
    /\ UNCHANGED <<vars, running, version, list, data, name, saved>>

Return(s) ==
    /\ pc' = [pc EXCEPT ![s] = "idle"]
    /\ list' = [list EXCEPT ![s] = <<>>]
    /\ data' = [data EXCEPT ![s] = Torn]
    /\ name' = [name EXCEPT ![s] = "path"]
    /\ open' = [open EXCEPT ![s] = NoInode]

ReturnSaved(s) ==
    /\ Return(s)
    /\ saved' = data[s].version

\* ... and writes it.  A text that another writer has put there since the
\* truncation is overwritten from the start, its longer tail stays.
Write(s) ==
    /\ pc[s] = "write"
    /\ \E t \in IF content[open[s]] = Torn THEN {data[s]} ELSE {data[s], Mixed} :
          content' = [content EXCEPT ![open[s]] = t]
    /\ IF name[s] = "path"
       THEN ReturnSaved(s)
       ELSE /\ pc' = [pc EXCEPT ![s] = "rename"]
            /\ open' = [open EXCEPT ![s] = NoInode]
            /\ UNCHANGED <<list, data, name, saved>>
    /\ UNCHANGED <<vars, running, version, dir>>

\* Mutated form: the error of WriteFile is ignored.
WriteFailsIgnored(s) ==
    /\ pc[s] = "write"
    /\ pc' = [pc EXCEPT ![s] = "rename"]
    /\ open' = [open EXCEPT ![s] = NoInode]
    /\ UNCHANGED <<vars, running, version, list, data, name, diskVars, saved>>

\* The open or the write fails.
WriteFails(s) ==
    /\ pc[s] \in {"open", "write"}
    /\ Return(s)
    /\ UNCHANGED <<vars, running, version, diskVars, saved>>

\* os.Rename; the other saver may have renamed path~ already.
Rename(s) ==
    /\ pc[s] = "rename"
    /\ IF dir["path~"] # NoInode
       THEN /\ dir' = [n \in Names |-> IF n = "path" THEN dir["path~"] ELSE NoInode]
            /\ ReturnSaved(s)
       ELSE /\ Return(s)
            /\ UNCHANGED <<dir, saved>>
    /\ UNCHANGED <<vars, running, version, content>>

-----------------------------------------------------------------------------
(* Stopping and opening. *)

Crash ==
    /\ running
    /\ running' = FALSE
    /\ pc' = [s \in Savers |-> "idle"]
    /\ list' = [s \in Savers |-> <<>>]
    /\ data' = [s \in Savers |-> Torn]
    /\ name' = [s \in Savers |-> "path"]
    /\ open' = [s \in Savers |-> NoInode]
    /\ UNCHANGED <<vars, version, diskVars, saved>>

File == IF dir["path"] = NoInode THEN Torn ELSE content[dir["path"]]

\* What OpenWallet refuses: a text that does not parse, a second default
\* account, a label that is there twice.
Defaults(recs) == {i \in 1..Len(recs) : recs[i].isDefault}
Opens(t) ==
    /\ t.whole
    /\ Cardinality(Defaults(t.records)) <= 1
    /\ \A i, j \in 1..Len(t.records) :
          t.records[i].label = t.records[j].label /\ t.records[i].label # NoLabel => i = j

\* What a map filled record by record holds where the records S meet.
LastOf(recs, S) == IF S = {} THEN NoObject ELSE recs[Max(S)].object

\* The account of a record, under password p: its key was encrypted with p and
\* with the salt that stands beside it.
GetAccount(rec, p) == rec.key = p /\ rec.salt = p

Record(recs, o) == recs[CHOOSE i \in 1..Len(recs) : recs[i].object = o]

\* Mutated form: the label map is not filled.
LoadNoLabels(recs) ==
    LET objects == {recs[i].object : i \in 1..Len(recs)} IN
    /\ accounts' = [i \in 1..Len(recs) |-> recs[i].object]
    /\ accAddressMap' = [a \in Addresses |-> LastOf(recs, {i \in 1..Len(recs) : AddressOf[recs[i].object] = a})]
    /\ accLabelMap' = [l \in Labels |-> NoObject]
    /\ defAcc' = IF recs = <<>> THEN NoObject
                 ELSE recs[IF Defaults(recs) = {} THEN 1 ELSE Min(Defaults(recs))].object
    /\ label' = [o \in Objects |-> IF o \in objects THEN Record(recs, o).label ELSE label[o]]
    /\ isDefault' = [o \in Objects |-> IF o \in objects THEN Record(recs, o).isDefault ELSE isDefault[o]]
    /\ sigSch' = [o \in Objects |-> IF o \in objects THEN Record(recs, o).sigSch ELSE sigSch[o]]
    /\ password' = [o \in Objects |-> IF o \in objects THEN Record(recs, o).key ELSE password[o]]

\* The tables and the objects' fields made from the records; the default
\* account is the flagged one, or the first one for want of it.
Load(recs) ==
    LET objects == {recs[i].object : i \in 1..Len(recs)} IN
    /\ accounts' = [i \in 1..Len(recs) |-> recs[i].object]
    /\ accAddressMap' = [a \in Addresses |-> LastOf(recs, {i \in 1..Len(recs) : AddressOf[recs[i].object] = a})]
    /\ accLabelMap' = [l \in Labels |-> LastOf(recs, {i \in 1..Len(recs) : recs[i].label = l})]
    /\ defAcc' = IF recs = <<>> THEN NoObject
                 ELSE recs[IF Defaults(recs) = {} THEN 1 ELSE Min(Defaults(recs))].object
    /\ label' = [o \in Objects |-> IF o \in objects THEN Record(recs, o).label ELSE label[o]]
    /\ isDefault' = [o \in Objects |-> IF o \in objects THEN Record(recs, o).isDefault ELSE isDefault[o]]
    /\ sigSch' = [o \in Objects |-> IF o \in objects THEN Record(recs, o).sigSch ELSE sigSch[o]]
    /\ password' = [o \in Objects |-> IF o \in objects THEN Record(recs, o).key ELSE password[o]]

\* Mutated form: the first account becomes the default one.
OpenWalletFirst ==
    /\ ~running /\ Opens(File)
    /\ Load([i \in 1..Len(File.records) |-> [File.records[i] EXCEPT !.isDefault = (i = 1)]])
    /\ version' = File.version
    /\ running' = TRUE
    /\ UNCHANGED <<saverVars, diskVars, saved>>

OpenWallet ==
    /\ ~running /\ Opens(File)
    /\ Load(File.records)
    /\ version' = File.version
    /\ running' = TRUE
    /\ UNCHANGED <<saverVars, diskVars, saved>>

\* OpenWallet returned an error; the program starts with an empty wallet.
NewWallet ==
    /\ ~running /\ ~Opens(File)
    /\ Load(<<>>)
    /\ version' = 0
    /\ running' = TRUE
    /\ UNCHANGED <<saverVars, diskVars, saved>>

SaveStep(s) ==
    \/ Save(s) \/ MarshalKey(s) \/ MarshalRest(s) \/ FileExisted(s)
    \/ Open(s) \/ Write(s) \/ WriteFails(s) \/ Rename(s)

FileNext ==
    \/ Operation
    \/ \E s \in Savers : SaveStep(s)
    \/ Crash \/ OpenWallet \/ NewWallet

FileSpec == FileInit /\ [][FileNext]_allVars

-----------------------------------------------------------------------------
(* Properties. *)

FileTypeOK ==
    /\ TypeOK
    /\ running \in BOOLEAN
    /\ version \in 0..MaxOps /\ saved \in 0..MaxOps
    /\ pc \in [Savers -> {"idle", "key", "rest", "open", "write", "rename"}]
    /\ \A s \in Savers : list[s] \in Seq(Objects) /\ data[s].version \in 0..MaxOps
    /\ name \in [Savers -> Names]
    /\ open \in [Savers -> Inodes \cup {NoInode}]
    /\ dir \in [Names -> Inodes \cup {NoInode}]
    /\ \A i \in Inodes : content[i].whole => content[i].version \in 0..MaxOps

\* What a Save that returned without an error has written is never lost or
\* undone: whatever fails or stops later, the file under path is a whole
\* text, as new as that Save's or newer (WalletData.Save, wallet.go:665-680).
Persisted == saved > 0 => File.whole /\ File.version >= saved

\* A file that was once complete is never half-written again, at no step of a
\* later Save and at no failure of one.
StaysWhole == [][File.whole => File'.whole]_allVars

\* The wallet that OpenWallet builds is as consistent as one that was never
\* saved: its maps, its list and its default account agree.
Restored == ListMatchesMap /\ DefaultAgrees /\ LabelFindsAccount

\* The records OpenWallet would find, of the wallet in memory.
Records == [i \in 1..Len(accounts) |->
    LET o == accounts[i] IN
    [object |-> o, key |-> password[o], salt |-> password[o], label |-> label[o],
     sigSch |-> sigSch[o], isDefault |-> isDefault[o]]]

\* Saving and opening lose nothing: a file as new as the wallet in memory has
\* exactly its accounts, in order, with labels, schemes, default and keys.
RoundTrip == running /\ File.whole /\ File.version = version => File.records = Records

\* A wallet that was saved opens again, and each of its accounts opens with
\* the password that its key is encrypted with.
OpensAgain ==
    File.whole => Opens(File) /\ \A i \in 1..Len(File.records) :
                                    GetAccount(File.records[i], File.records[i].key)

\* Saving and opening implement Vault: what is written to a file over many
\* steps appears in it at one of them, as the wallet in memory that moment, and
\* wherever the process stops, it starts again with exactly what the file had
\* (Wallet.Save, WalletData.Save, OpenWallet).
InFile == IF File.whole THEN {File.records} ELSE {}
Disk == INSTANCE Vault WITH
    Empty <- <<>>, Exclusive <- \A s, t \in Savers : s = t,
    up <- running, memory <- Records, stored <- InFile
ImplementsVault == Disk!Spec
=============================================================================
