------------------------ MODULE ServerStartup_proofs ------------------------
(***************************************************************************)
(* Proofs about the startup of the program: which key a server serves, and *)
(* where its login service sends the players.                              *)
(***************************************************************************)
EXTENDS ServerStartup, TLAPS

\* What a program that is not running has in memory.
NothingInMemory ==
    program # "running" =>
        up = {} /\ \A n \in Names : key[n] = NoKey /\ server[n] = "none"

\* Without a folder there are no key files.
KeysNeedFolder ==
    \A n \in Names : ~ folder[n] => publicFile[n] = Missing /\ privateFile[n] = Missing

\* How far MakeDefaultServer has come.
Making ==
    /\ program \in {"savePublic", "savePrivate", "saveConfig"} =>
           newKey \in Keys /\ folder[Default]
    /\ program \in {"savePublic", "savePrivate"} => privateFile[Default] = Missing
    /\ program \in {"savePrivate", "saveConfig"} =>
           publicFile[Default] = Whole([key |-> newKey, half |-> "private"])
    /\ program = "saveConfig" => privateFile[Default] = Whole(newKey)

\* A private key that can be read has its public file beside it.
FilesArePairs ==
    \A n \in Names :
        Readable(privateFile[n]) =>
            Readable(publicFile[n]) /\ Content(publicFile[n]).key = Content(privateFile[n])

\* A key in memory, and one a server has listened with, is the one in the folder.
KeysAreOnDisk ==
    \A n \in Names :
        /\ key[n] # NoKey => privateFile[n] = Whole(key[n])
        /\ issued[n] # NoKey => privateFile[n] = Whole(issued[n])

\* Only servers that have a key listen.
ListenersHaveKeys ==
    /\ \A n \in Names : server[n] \in {"keyed", "loginTried", "started"} => key[n] # NoKey
    /\ \A u \in up : server[u[1]] \in {"loginTried", "started"}

IInv ==
    /\ TypeOK
    /\ NothingInMemory /\ KeysNeedFolder /\ Making /\ FilesArePairs /\ KeysAreOnDisk
    /\ ListenersHaveKeys
    /\ LoginLeadsSomewhere
-----------------------------------------------------------------------------
(* Files *)

\* A file that is whole can be read and gives back what was written.
LEMMA Kinds ==
    /\ \A x : Readable(Whole(x)) /\ Content(Whole(x)) = x
    /\ ~ Readable(Missing) /\ ~ Readable(Torn)
    /\ \A C : /\ Missing \in Files(C) /\ Torn \in Files(C)
              /\ \A x \in C : Whole(x) \in Files(C)
              /\ \A f \in Files(C) : Readable(f) => Content(f) \in C /\ f = Whole(Content(f))
<1>1. \A x : Len(Whole(x)) = 2 /\ Whole(x)[2] = x
    BY DEF Whole
<1>2. Len(Missing) = 0 /\ Len(Torn) = 1
    BY DEF Missing, Torn
<1>3. (\A x : Readable(Whole(x)) /\ Content(Whole(x)) = x) /\ ~ Readable(Missing) /\ ~ Readable(Torn)
    BY <1>1, <1>2 DEF Readable, Content
<1>4. \A C : /\ Missing \in Files(C) /\ Torn \in Files(C)
             /\ \A x \in C : Whole(x) \in Files(C)
    BY DEF Files
<1>5. ASSUME NEW C, NEW f \in Files(C), Readable(f)
      PROVE  Content(f) \in C /\ f = Whole(Content(f))
    <2>1. PICK x \in C : f = Whole(x)
        BY <1>3, <1>5 DEF Files
    <2> QED
        BY <1>3, <2>1
<1> QED
    BY <1>3, <1>4, <1>5

LEMMA DefaultConfigIsOne == DefaultConfig \in Configs
BY DefaultPortsDiffer DEF DefaultConfig, Configs

-----------------------------------------------------------------------------
(* The invariant *)

LEMMA InitInv == Init => IInv
<1> SUFFICES ASSUME Init PROVE IInv
    OBVIOUS
<1>1. TypeOK
    BY Kinds, DefaultConfigIsOne, BoundsAreNatural DEF Init, TypeOK
<1>2. /\ program = "down" /\ up = {}
      /\ \A n \in Names : /\ key[n] = NoKey /\ issued[n] = NoKey /\ server[n] = "none"
                         /\ publicFile[n] = Missing /\ privateFile[n] = Missing
    BY DEF Init
<1> QED
    BY <1>1, <1>2, Kinds DEF IInv, NothingInMemory, KeysNeedFolder, Making, FilesArePairs,
                             KeysAreOnDisk, ListenersHaveKeys, LoginLeadsSomewhere

\* The operator makes a folder.
LEMMA CreateStep ==
    ASSUME IInv, NEW n \in Names, CreateFolder(n)
    PROVE  IInv'
<1>1. TypeOK'
    BY Kinds, DefaultIsAName
       DEF IInv, TypeOK, CreateFolder, files, operator, memory
<1>2. NothingInMemory'
    BY Kinds, DefaultIsAName
       DEF IInv, TypeOK, NothingInMemory, CreateFolder, files, operator, memory
<1>3. KeysNeedFolder'
    BY Kinds, DefaultIsAName
       DEF IInv, TypeOK, KeysNeedFolder, Making, CreateFolder, files, operator, memory
<1>4. Making'
    BY Kinds, DefaultIsAName
       DEF IInv, TypeOK, Making, KeysNeedFolder, CreateFolder, files, operator, memory
<1>5. FilesArePairs'
    BY Kinds, DefaultIsAName
       DEF IInv, TypeOK, FilesArePairs, Making, CreateFolder, files, operator, memory
<1>6. KeysAreOnDisk'
    BY Kinds, DefaultIsAName
       DEF IInv, TypeOK, KeysAreOnDisk, Making, NothingInMemory, ListenersHaveKeys, CreateFolder,
           files, operator, memory
<1>7. ListenersHaveKeys'
    BY Kinds, DefaultIsAName
       DEF IInv, TypeOK, ListenersHaveKeys, NothingInMemory, CreateFolder, files, operator, memory
<1>8. LoginLeadsSomewhere'
    BY Kinds, DefaultIsAName
       DEF IInv, TypeOK, LoginLeadsSomewhere, PortTaken, PortOf, ListenersHaveKeys,
           NothingInMemory, CreateFolder, files, operator, memory
<1> QED
    BY <1>1, <1>2, <1>3, <1>4, <1>5, <1>6, <1>7, <1>8 DEF IInv

\* The operator removes a folder.
LEMMA RemoveStep ==
    ASSUME IInv, NEW n \in Names, RemoveFolder(n)
    PROVE  IInv'
<1>1. TypeOK'
    BY Kinds, DefaultIsAName
       DEF IInv, TypeOK, RemoveFolder, files, operator, memory
<1>2. NothingInMemory'
    BY Kinds, DefaultIsAName
       DEF IInv, TypeOK, NothingInMemory, RemoveFolder, files, operator, memory
<1>3. KeysNeedFolder'
    BY Kinds, DefaultIsAName
       DEF IInv, TypeOK, KeysNeedFolder, Making, RemoveFolder, files, operator, memory
<1>4. Making'
    BY Kinds, DefaultIsAName
       DEF IInv, TypeOK, Making, KeysNeedFolder, RemoveFolder, files, operator, memory
<1>5. FilesArePairs'
    BY Kinds, DefaultIsAName
       DEF IInv, TypeOK, FilesArePairs, Making, RemoveFolder, files, operator, memory
<1>6. KeysAreOnDisk'
    BY Kinds, DefaultIsAName
       DEF IInv, TypeOK, KeysAreOnDisk, Making, NothingInMemory, ListenersHaveKeys, RemoveFolder,
           files, operator, memory
<1>7. ListenersHaveKeys'
    BY Kinds, DefaultIsAName
       DEF IInv, TypeOK, ListenersHaveKeys, NothingInMemory, RemoveFolder, files, operator, memory
<1>8. LoginLeadsSomewhere'
    BY Kinds, DefaultIsAName
       DEF IInv, TypeOK, LoginLeadsSomewhere, PortTaken, PortOf, ListenersHaveKeys,
           NothingInMemory, RemoveFolder, files, operator, memory
<1> QED
    BY <1>1, <1>2, <1>3, <1>4, <1>5, <1>6, <1>7, <1>8 DEF IInv

\* The operator supplies a pair of keys.
LEMMA SupplyStep ==
    ASSUME IInv, NEW n \in Names, SupplyKeys(n)
    PROVE  IInv'
<1>1. TypeOK'
    <2>1. keys' \in Keys /\ keys' \in 0 .. MaxKeys
        BY BoundsAreNatural DEF IInv, TypeOK, SupplyKeys, Keys
    <2>2. /\ Whole([key |-> keys', half |-> "public"]) \in Files(PublicKeys)
          /\ Whole(keys') \in Files(Keys)
        BY <2>1, Kinds DEF PublicKeys
    <2> QED
        BY <2>1, <2>2 DEF IInv, TypeOK, SupplyKeys, memory
<1>2. NothingInMemory'
    BY Kinds, DefaultIsAName
       DEF IInv, TypeOK, NothingInMemory, SupplyKeys, Keys, PublicKeys, files, operator, memory
<1>3. KeysNeedFolder'
    BY Kinds, DefaultIsAName
       DEF IInv, TypeOK, KeysNeedFolder, Making, SupplyKeys, Keys, PublicKeys, files, operator,
           memory
<1>4. Making'
    BY Kinds, DefaultIsAName
       DEF IInv, TypeOK, Making, KeysNeedFolder, SupplyKeys, Keys, PublicKeys, files, operator,
           memory
<1>5. FilesArePairs'
    BY Kinds, DefaultIsAName
       DEF IInv, TypeOK, FilesArePairs, Making, SupplyKeys, Keys, PublicKeys, files, operator,
           memory
<1>6. KeysAreOnDisk'
    BY Kinds, DefaultIsAName
       DEF IInv, TypeOK, KeysAreOnDisk, Making, NothingInMemory, ListenersHaveKeys, SupplyKeys,
           Keys, PublicKeys, files, operator, memory
<1>7. ListenersHaveKeys'
    BY Kinds, DefaultIsAName
       DEF IInv, TypeOK, ListenersHaveKeys, NothingInMemory, SupplyKeys, Keys, PublicKeys, files,
           operator, memory
<1>8. LoginLeadsSomewhere'
    BY Kinds, DefaultIsAName
       DEF IInv, TypeOK, LoginLeadsSomewhere, PortTaken, PortOf, ListenersHaveKeys,
           NothingInMemory, SupplyKeys, Keys, PublicKeys, files, operator, memory
<1> QED
    BY <1>1, <1>2, <1>3, <1>4, <1>5, <1>6, <1>7, <1>8 DEF IInv

\* The operator writes a configuration.
LEMMA EditStep ==
    ASSUME IInv, NEW n \in Names, NEW c \in Files(Configs), EditConfig(n, c)
    PROVE  IInv'
<1>1. TypeOK'
    <2>1. edits' \in 0 .. MaxEdits
        BY BoundsAreNatural DEF IInv, TypeOK, EditConfig
    <2> QED
        BY <2>1 DEF IInv, TypeOK, EditConfig, memory
<1>2. NothingInMemory'
    BY Kinds, DefaultIsAName
       DEF IInv, TypeOK, NothingInMemory, EditConfig, files, operator, memory
<1>3. KeysNeedFolder'
    BY Kinds, DefaultIsAName
       DEF IInv, TypeOK, KeysNeedFolder, Making, EditConfig, files, operator, memory
<1>4. Making'
    BY Kinds, DefaultIsAName
       DEF IInv, TypeOK, Making, KeysNeedFolder, EditConfig, files, operator, memory
<1>5. FilesArePairs'
    BY Kinds, DefaultIsAName
       DEF IInv, TypeOK, FilesArePairs, Making, EditConfig, files, operator, memory
<1>6. KeysAreOnDisk'
    BY Kinds, DefaultIsAName
       DEF IInv, TypeOK, KeysAreOnDisk, Making, NothingInMemory, ListenersHaveKeys, EditConfig,
           files, operator, memory
<1>7. ListenersHaveKeys'
    BY Kinds, DefaultIsAName
       DEF IInv, TypeOK, ListenersHaveKeys, NothingInMemory, EditConfig, files, operator, memory
<1>8. LoginLeadsSomewhere'
    BY Kinds, DefaultIsAName
       DEF IInv, TypeOK, LoginLeadsSomewhere, PortTaken, PortOf, ListenersHaveKeys,
           NothingInMemory, EditConfig, files, operator, memory
<1> QED
    BY <1>1, <1>2, <1>3, <1>4, <1>5, <1>6, <1>7, <1>8 DEF IInv

\* ServerManager finds folders.
LEMMA FindStep ==
    ASSUME IInv, FindServers
    PROVE  IInv'
<1>1. TypeOK'
    BY Kinds, DefaultIsAName
       DEF IInv, TypeOK, FindServers, files, operator, memory
<1>2. NothingInMemory'
    BY Kinds, DefaultIsAName
       DEF IInv, TypeOK, NothingInMemory, FindServers, files, operator, memory
<1>3. KeysNeedFolder'
    BY Kinds, DefaultIsAName
       DEF IInv, TypeOK, KeysNeedFolder, Making, FindServers, files, operator, memory
<1>4. Making'
    BY Kinds, DefaultIsAName
       DEF IInv, TypeOK, Making, KeysNeedFolder, FindServers, files, operator, memory
<1>5. FilesArePairs'
    BY Kinds, DefaultIsAName
       DEF IInv, TypeOK, FilesArePairs, Making, FindServers, files, operator, memory
<1>6. KeysAreOnDisk'
    BY Kinds, DefaultIsAName
       DEF IInv, TypeOK, KeysAreOnDisk, Making, NothingInMemory, ListenersHaveKeys, FindServers,
           files, operator, memory
<1>7. ListenersHaveKeys'
    BY Kinds, DefaultIsAName
       DEF IInv, TypeOK, ListenersHaveKeys, NothingInMemory, FindServers, files, operator, memory
<1>8. LoginLeadsSomewhere'
    BY Kinds, DefaultIsAName
       DEF IInv, TypeOK, LoginLeadsSomewhere, PortTaken, PortOf, ListenersHaveKeys,
           NothingInMemory, FindServers, files, operator, memory
<1> QED
    BY <1>1, <1>2, <1>3, <1>4, <1>5, <1>6, <1>7, <1>8 DEF IInv

\* MakeDefaultServer makes a folder and a key.
LEMMA FolderStep ==
    ASSUME IInv, MakeFolder
    PROVE  IInv'
<1>1. TypeOK'
    <2>1. keys' \in Keys /\ keys' \in 0 .. MaxKeys /\ newKey' = keys'
        BY BoundsAreNatural DEF IInv, TypeOK, MakeFolder, Keys
    <2> QED
        BY <2>1 DEF IInv, TypeOK, MakeFolder, memory
<1>2. NothingInMemory'
    BY Kinds, DefaultIsAName
       DEF IInv, TypeOK, NothingInMemory, MakeFolder, Keys, files, operator, memory
<1>3. KeysNeedFolder'
    BY Kinds, DefaultIsAName
       DEF IInv, TypeOK, KeysNeedFolder, Making, MakeFolder, Keys, files, operator, memory
<1>4. Making'
    <2>1. newKey' \in Keys
        BY BoundsAreNatural DEF IInv, TypeOK, MakeFolder, Keys
    <2>2. /\ folder'[Default] = TRUE /\ program' = "savePublic"
          /\ privateFile'[Default] = Missing
        BY DefaultIsAName DEF IInv, TypeOK, KeysNeedFolder, MakeFolder
    <2> QED
        BY <2>1, <2>2 DEF Making
<1>5. FilesArePairs'
    BY Kinds, DefaultIsAName
       DEF IInv, TypeOK, FilesArePairs, Making, MakeFolder, Keys, files, operator, memory
<1>6. KeysAreOnDisk'
    BY Kinds, DefaultIsAName
       DEF IInv, TypeOK, KeysAreOnDisk, Making, NothingInMemory, ListenersHaveKeys, MakeFolder,
           Keys, files, operator, memory
<1>7. ListenersHaveKeys'
    BY Kinds, DefaultIsAName
       DEF IInv, TypeOK, ListenersHaveKeys, NothingInMemory, MakeFolder, Keys, files, operator,
           memory
<1>8. LoginLeadsSomewhere'
    BY Kinds, DefaultIsAName
       DEF IInv, TypeOK, LoginLeadsSomewhere, PortTaken, PortOf, ListenersHaveKeys,
           NothingInMemory, MakeFolder, Keys, files, operator, memory
<1> QED
    BY <1>1, <1>2, <1>3, <1>4, <1>5, <1>6, <1>7, <1>8 DEF IInv

\* The public file is written.
LEMMA PublicStep ==
    ASSUME IInv, SavePublic
    PROVE  IInv'
<1>1. TypeOK'
    <2>1. [key |-> newKey, half |-> "private"] \in PublicKeys
        BY DEF IInv, Making, SavePublic, PublicKeys
    <2>2. Whole([key |-> newKey, half |-> "private"]) \in Files(PublicKeys)
        BY <2>1, Kinds
    <2> QED
        BY <2>2 DEF IInv, TypeOK, SavePublic, operator, memory
<1>2. NothingInMemory'
    BY Kinds, DefaultIsAName
       DEF IInv, TypeOK, NothingInMemory, SavePublic, PublicKeys, files, operator, memory
<1>3. KeysNeedFolder'
    BY Kinds, DefaultIsAName
       DEF IInv, TypeOK, KeysNeedFolder, Making, SavePublic, PublicKeys, files, operator, memory
<1>4. Making'
    BY Kinds, DefaultIsAName
       DEF IInv, TypeOK, Making, KeysNeedFolder, SavePublic, PublicKeys, files, operator, memory
<1>5. FilesArePairs'
    BY Kinds, DefaultIsAName
       DEF IInv, TypeOK, FilesArePairs, Making, SavePublic, PublicKeys, files, operator, memory
<1>6. KeysAreOnDisk'
    BY Kinds, DefaultIsAName
       DEF IInv, TypeOK, KeysAreOnDisk, Making, NothingInMemory, ListenersHaveKeys, SavePublic,
           PublicKeys, files, operator, memory
<1>7. ListenersHaveKeys'
    BY Kinds, DefaultIsAName
       DEF IInv, TypeOK, ListenersHaveKeys, NothingInMemory, SavePublic, PublicKeys, files,
           operator, memory
<1>8. LoginLeadsSomewhere'
    BY Kinds, DefaultIsAName
       DEF IInv, TypeOK, LoginLeadsSomewhere, PortTaken, PortOf, ListenersHaveKeys,
           NothingInMemory, SavePublic, PublicKeys, files, operator, memory
<1> QED
    BY <1>1, <1>2, <1>3, <1>4, <1>5, <1>6, <1>7, <1>8 DEF IInv

\* The private file is written.
LEMMA PrivateStep ==
    ASSUME IInv, SavePrivate
    PROVE  IInv'
<1>1. TypeOK'
    <2>1. Whole(newKey) \in Files(Keys)
        BY Kinds DEF IInv, Making, SavePrivate
    <2> QED
        BY <2>1 DEF IInv, TypeOK, SavePrivate, operator, memory
<1>2. NothingInMemory'
    BY Kinds, DefaultIsAName
       DEF IInv, TypeOK, NothingInMemory, SavePrivate, files, operator, memory
<1>3. KeysNeedFolder'
    BY Kinds, DefaultIsAName
       DEF IInv, TypeOK, KeysNeedFolder, Making, SavePrivate, files, operator, memory
<1>4. Making'
    BY Kinds, DefaultIsAName
       DEF IInv, TypeOK, Making, KeysNeedFolder, SavePrivate, files, operator, memory
<1>5. FilesArePairs'
    BY Kinds, DefaultIsAName
       DEF IInv, TypeOK, FilesArePairs, Making, SavePrivate, files, operator, memory
<1>6. KeysAreOnDisk'
    BY Kinds, DefaultIsAName
       DEF IInv, TypeOK, KeysAreOnDisk, Making, NothingInMemory, ListenersHaveKeys, SavePrivate,
           files, operator, memory
<1>7. ListenersHaveKeys'
    BY Kinds, DefaultIsAName
       DEF IInv, TypeOK, ListenersHaveKeys, NothingInMemory, SavePrivate, files, operator, memory
<1>8. LoginLeadsSomewhere'
    BY Kinds, DefaultIsAName
       DEF IInv, TypeOK, LoginLeadsSomewhere, PortTaken, PortOf, ListenersHaveKeys,
           NothingInMemory, SavePrivate, files, operator, memory
<1> QED
    BY <1>1, <1>2, <1>3, <1>4, <1>5, <1>6, <1>7, <1>8 DEF IInv

\* The configuration is written.
LEMMA ConfigStep ==
    ASSUME IInv, SaveConfig
    PROVE  IInv'
<1>1. TypeOK'
    BY Kinds, DefaultIsAName, DefaultConfigIsOne
       DEF IInv, TypeOK, SaveConfig, files, operator, memory
<1>2. NothingInMemory'
    BY Kinds, DefaultIsAName
       DEF IInv, TypeOK, NothingInMemory, SaveConfig, files, operator, memory
<1>3. KeysNeedFolder'
    BY Kinds, DefaultIsAName
       DEF IInv, TypeOK, KeysNeedFolder, Making, SaveConfig, files, operator, memory
<1>4. Making'
    BY Kinds, DefaultIsAName
       DEF IInv, TypeOK, Making, KeysNeedFolder, SaveConfig, files, operator, memory
<1>5. FilesArePairs'
    BY Kinds, DefaultIsAName
       DEF IInv, TypeOK, FilesArePairs, Making, SaveConfig, files, operator, memory
<1>6. KeysAreOnDisk'
    BY Kinds, DefaultIsAName
       DEF IInv, TypeOK, KeysAreOnDisk, Making, NothingInMemory, ListenersHaveKeys, SaveConfig,
           files, operator, memory
<1>7. ListenersHaveKeys'
    BY Kinds, DefaultIsAName
       DEF IInv, TypeOK, ListenersHaveKeys, NothingInMemory, SaveConfig, files, operator, memory
<1>8. LoginLeadsSomewhere'
    BY Kinds, DefaultIsAName
       DEF IInv, TypeOK, LoginLeadsSomewhere, PortTaken, PortOf, ListenersHaveKeys,
           NothingInMemory, SaveConfig, files, operator, memory
<1> QED
    BY <1>1, <1>2, <1>3, <1>4, <1>5, <1>6, <1>7, <1>8 DEF IInv

\* The program dies.
LEMMA CrashStep ==
    ASSUME IInv, Crash
    PROVE  IInv'
<1>1. TypeOK'
    BY Kinds, DefaultIsAName, DefaultConfigIsOne
       DEF IInv, TypeOK, Crash, ForgetMemory, files, operator, memory
<1>2. NothingInMemory'
    BY Kinds, DefaultIsAName
       DEF IInv, TypeOK, NothingInMemory, Crash, ForgetMemory, files, operator, memory
<1>3. KeysNeedFolder'
    BY Kinds, DefaultIsAName
       DEF IInv, TypeOK, KeysNeedFolder, Making, Crash, ForgetMemory, files, operator, memory
<1>4. Making'
    BY Kinds, DefaultIsAName
       DEF IInv, TypeOK, Making, KeysNeedFolder, Crash, ForgetMemory, files, operator, memory
<1>5. FilesArePairs'
    BY Kinds, DefaultIsAName
       DEF IInv, TypeOK, FilesArePairs, Making, Crash, ForgetMemory, files, operator, memory
<1>6. KeysAreOnDisk'
    BY Kinds, DefaultIsAName
       DEF IInv, TypeOK, KeysAreOnDisk, Making, NothingInMemory, ListenersHaveKeys, Crash,
           ForgetMemory, files, operator, memory
<1>7. ListenersHaveKeys'
    BY Kinds, DefaultIsAName
       DEF IInv, TypeOK, ListenersHaveKeys, NothingInMemory, Crash, ForgetMemory, files,
           operator, memory
<1>8. LoginLeadsSomewhere'
    BY Kinds, DefaultIsAName
       DEF IInv, TypeOK, LoginLeadsSomewhere, PortTaken, PortOf, ListenersHaveKeys,
           NothingInMemory, Crash, ForgetMemory, files, operator, memory
<1> QED
    BY <1>1, <1>2, <1>3, <1>4, <1>5, <1>6, <1>7, <1>8 DEF IInv

\* A server reads its configuration.
LEMMA ReadConfigStep ==
    ASSUME IInv, NEW n \in Names, ReadConfig(n)
    PROVE  IInv'
<1>1. TypeOK'
    BY Kinds, DefaultIsAName, DefaultConfigIsOne
       DEF IInv, TypeOK, ReadConfig, Becomes, files, operator, memory
<1>2. NothingInMemory'
    BY Kinds, DefaultIsAName
       DEF IInv, TypeOK, NothingInMemory, ReadConfig, Becomes, files, operator, memory
<1>3. KeysNeedFolder'
    BY Kinds, DefaultIsAName
       DEF IInv, TypeOK, KeysNeedFolder, Making, ReadConfig, Becomes, files, operator, memory
<1>4. Making'
    BY Kinds, DefaultIsAName
       DEF IInv, TypeOK, Making, KeysNeedFolder, ReadConfig, Becomes, files, operator, memory
<1>5. FilesArePairs'
    BY Kinds, DefaultIsAName
       DEF IInv, TypeOK, FilesArePairs, Making, ReadConfig, Becomes, files, operator, memory
<1>6. KeysAreOnDisk'
    BY Kinds, DefaultIsAName
       DEF IInv, TypeOK, KeysAreOnDisk, Making, NothingInMemory, ListenersHaveKeys, ReadConfig,
           Becomes, files, operator, memory
<1>7. ListenersHaveKeys'
    BY Kinds, DefaultIsAName
       DEF IInv, TypeOK, ListenersHaveKeys, NothingInMemory, ReadConfig, Becomes, files,
           operator, memory
<1>8. LoginLeadsSomewhere'
    BY Kinds, DefaultIsAName
       DEF IInv, TypeOK, LoginLeadsSomewhere, PortTaken, PortOf, ListenersHaveKeys,
           NothingInMemory, ReadConfig, Becomes, files, operator, memory
<1> QED
    BY <1>1, <1>2, <1>3, <1>4, <1>5, <1>6, <1>7, <1>8 DEF IInv

\* A server loads its key.
LEMMA LoadKeyStep ==
    ASSUME IInv, NEW n \in Names, LoadKey(n)
    PROVE  IInv'
<1>1. TypeOK'
    BY Kinds, DefaultIsAName
       DEF IInv, TypeOK, LoadKey, Becomes, files, operator, memory
<1>2. NothingInMemory'
    BY Kinds, DefaultIsAName
       DEF IInv, TypeOK, NothingInMemory, LoadKey, Becomes, files, operator, memory
<1>3. KeysNeedFolder'
    BY Kinds, DefaultIsAName
       DEF IInv, TypeOK, KeysNeedFolder, Making, LoadKey, Becomes, files, operator, memory
<1>4. Making'
    BY Kinds, DefaultIsAName
       DEF IInv, TypeOK, Making, KeysNeedFolder, LoadKey, Becomes, files, operator, memory
<1>5. FilesArePairs'
    BY Kinds, DefaultIsAName
       DEF IInv, TypeOK, FilesArePairs, Making, LoadKey, Becomes, files, operator, memory
<1>6. KeysAreOnDisk'
    BY Kinds, DefaultIsAName
       DEF IInv, TypeOK, KeysAreOnDisk, Making, NothingInMemory, ListenersHaveKeys, LoadKey,
           Becomes, files, operator, memory
<1>7. ListenersHaveKeys'
    <2>1. Readable(privateFile[n]) => Content(privateFile[n]) # NoKey
        <3>1. Readable(privateFile[n]) => Content(privateFile[n]) \in Keys
            BY Kinds DEF IInv, TypeOK
        <3>2. NoKey \notin Keys
            BY DEF NoKey, Keys
        <3> QED
            BY <3>1, <3>2
    <2>2. server[n] = "configured" /\ up' = up
        BY DEF LoadKey
    <2>3. ASSUME NEW m \in Names, server'[m] \in {"keyed", "loginTried", "started"}
          PROVE  key'[m] # NoKey
        BY <2>1, <2>3 DEF IInv, TypeOK, ListenersHaveKeys, LoadKey, Becomes
    <2>4. ASSUME NEW u \in up PROVE server'[u[1]] \in {"loginTried", "started"}
        BY <2>2 DEF IInv, TypeOK, ListenersHaveKeys, LoadKey, Becomes
    <2> QED
        BY <2>2, <2>3, <2>4 DEF ListenersHaveKeys
<1>8. LoginLeadsSomewhere'
    BY Kinds, DefaultIsAName
       DEF IInv, TypeOK, LoginLeadsSomewhere, PortTaken, PortOf, ListenersHaveKeys,
           NothingInMemory, LoadKey, Becomes, files, operator, memory
<1> QED
    BY <1>1, <1>2, <1>3, <1>4, <1>5, <1>6, <1>7, <1>8 DEF IInv

\* A host name is not resolved.
LEMMA ResolveStep ==
    ASSUME IInv, NEW n \in Names, ResolveFails(n)
    PROVE  IInv'
<1>1. TypeOK'
    BY Kinds, DefaultIsAName
       DEF IInv, TypeOK, ResolveFails, Becomes, files, operator, memory
<1>2. NothingInMemory'
    BY Kinds, DefaultIsAName
       DEF IInv, TypeOK, NothingInMemory, ResolveFails, Becomes, files, operator, memory
<1>3. KeysNeedFolder'
    BY Kinds, DefaultIsAName
       DEF IInv, TypeOK, KeysNeedFolder, Making, ResolveFails, Becomes, files, operator, memory
<1>4. Making'
    BY Kinds, DefaultIsAName
       DEF IInv, TypeOK, Making, KeysNeedFolder, ResolveFails, Becomes, files, operator, memory
<1>5. FilesArePairs'
    BY Kinds, DefaultIsAName
       DEF IInv, TypeOK, FilesArePairs, Making, ResolveFails, Becomes, files, operator, memory
<1>6. KeysAreOnDisk'
    BY Kinds, DefaultIsAName
       DEF IInv, TypeOK, KeysAreOnDisk, Making, NothingInMemory, ListenersHaveKeys, ResolveFails,
           Becomes, files, operator, memory
<1>7. ListenersHaveKeys'
    BY Kinds, DefaultIsAName
       DEF IInv, TypeOK, ListenersHaveKeys, NothingInMemory, ResolveFails, Becomes, files,
           operator, memory
<1>8. LoginLeadsSomewhere'
    BY Kinds, DefaultIsAName
       DEF IInv, TypeOK, LoginLeadsSomewhere, PortTaken, PortOf, ListenersHaveKeys,
           NothingInMemory, ResolveFails, Becomes, files, operator, memory
<1> QED
    BY <1>1, <1>2, <1>3, <1>4, <1>5, <1>6, <1>7, <1>8 DEF IInv

\* The login service listens, or its port is taken.
LEMMA LoginStep ==
    ASSUME IInv, NEW n \in Names, ListenLogin(n)
    PROVE  IInv'
<1>1. TypeOK'
    BY Kinds, DefaultIsAName
       DEF IInv, TypeOK, ListenLogin, Listen, Becomes, files, operator, memory
<1>2. NothingInMemory'
    BY Kinds, DefaultIsAName
       DEF IInv, TypeOK, NothingInMemory, ListenLogin, Listen, Becomes, files, operator, memory
<1>3. KeysNeedFolder'
    BY Kinds, DefaultIsAName
       DEF IInv, TypeOK, KeysNeedFolder, Making, ListenLogin, Listen, Becomes, files, operator,
           memory
<1>4. Making'
    BY Kinds, DefaultIsAName
       DEF IInv, TypeOK, Making, KeysNeedFolder, ListenLogin, Listen, Becomes, files, operator,
           memory
<1>5. FilesArePairs'
    BY Kinds, DefaultIsAName
       DEF IInv, TypeOK, FilesArePairs, Making, ListenLogin, Listen, Becomes, files, operator,
           memory
<1>6. KeysAreOnDisk'
    BY Kinds, DefaultIsAName
       DEF IInv, TypeOK, KeysAreOnDisk, Making, NothingInMemory, ListenersHaveKeys, ListenLogin,
           Listen, Becomes, files, operator, memory
<1>7. ListenersHaveKeys'
    BY Kinds, DefaultIsAName
       DEF IInv, TypeOK, ListenersHaveKeys, NothingInMemory, ListenLogin, Listen, Becomes, files,
           operator, memory
<1>8. LoginLeadsSomewhere'
    BY Kinds, DefaultIsAName
       DEF IInv, TypeOK, LoginLeadsSomewhere, PortTaken, PortOf, ListenersHaveKeys,
           NothingInMemory, ListenLogin, Listen, Becomes, files, operator, memory
<1> QED
    BY <1>1, <1>2, <1>3, <1>4, <1>5, <1>6, <1>7, <1>8 DEF IInv

\* The authentication service listens, or its port is taken.
LEMMA AuthStep ==
    ASSUME IInv, NEW n \in Names, ListenAuth(n)
    PROVE  IInv'
<1>1. TypeOK'
    BY Kinds, DefaultIsAName
       DEF IInv, TypeOK, ListenAuth, Listen, Becomes, files, operator, memory
<1>2. NothingInMemory'
    BY Kinds, DefaultIsAName
       DEF IInv, TypeOK, NothingInMemory, ListenAuth, Listen, Becomes, files, operator, memory
<1>3. KeysNeedFolder'
    BY Kinds, DefaultIsAName
       DEF IInv, TypeOK, KeysNeedFolder, Making, ListenAuth, Listen, Becomes, files, operator,
           memory
<1>4. Making'
    BY Kinds, DefaultIsAName
       DEF IInv, TypeOK, Making, KeysNeedFolder, ListenAuth, Listen, Becomes, files, operator,
           memory
<1>5. FilesArePairs'
    BY Kinds, DefaultIsAName
       DEF IInv, TypeOK, FilesArePairs, Making, ListenAuth, Listen, Becomes, files, operator, memory
<1>6. KeysAreOnDisk'
    BY Kinds, DefaultIsAName
       DEF IInv, TypeOK, KeysAreOnDisk, Making, NothingInMemory, ListenersHaveKeys, ListenAuth,
           Listen, Becomes, files, operator, memory
<1>7. ListenersHaveKeys'
    BY Kinds, DefaultIsAName
       DEF IInv, TypeOK, ListenersHaveKeys, NothingInMemory, ListenAuth, Listen, Becomes, files,
           operator, memory
<1>8. LoginLeadsSomewhere'
    <2>1. /\ config' = config
          /\ (up' = up /\ PortTaken(config[n].auth)) \/ up' = up \cup {<< n, "auth" >>}
          /\ server' = [server EXCEPT ![n] = "started"]
        BY DEF ListenAuth, Listen, Becomes, PortOf
    <2>2. \A p : PortTaken(p) => PortTaken(p)'
        BY <2>1 DEF PortTaken, PortOf
    <2>3. PortTaken(config[n].auth)'
        <3>1. CASE up' = up \cup {<< n, "auth" >>}
            <4> DEFINE u == << n, "auth" >>
            <4>1. u \in up' /\ u[1] = n /\ u[2] = "auth"
                BY <3>1
            <4>2. PortOf(u[1], u[2])' = config[n].auth
                BY <2>1, <4>1 DEF PortOf
            <4> QED
                BY <2>1, <4>1, <4>2 DEF PortTaken
        <3> QED
            BY <2>1, <2>2, <3>1
    <2>4. ASSUME NEW m \in Names \ {n}, << m, "login" >> \in up', server'[m] = "started"
          PROVE  PortTaken(config[m].auth)'
        <3>1. << m, "login" >> \in up /\ server[m] = "started"
            BY <2>1, <2>4 DEF IInv, TypeOK
        <3>2. PortTaken(config[m].auth)
            BY <3>1 DEF IInv, LoginLeadsSomewhere
        <3> QED
            BY <2>1, <2>2, <3>2
    <2> QED
        BY <2>1, <2>3, <2>4 DEF LoginLeadsSomewhere
<1> QED
    BY <1>1, <1>2, <1>3, <1>4, <1>5, <1>6, <1>7, <1>8 DEF IInv

\* The program ends.
LEMMA ExitStep ==
    ASSUME IInv, Exit
    PROVE  IInv'
<1>1. TypeOK'
    BY Kinds, DefaultIsAName, DefaultConfigIsOne
       DEF IInv, TypeOK, Exit, ForgetMemory, files, operator, memory
<1>2. NothingInMemory'
    BY Kinds, DefaultIsAName
       DEF IInv, TypeOK, NothingInMemory, Exit, ForgetMemory, files, operator, memory
<1>3. KeysNeedFolder'
    BY Kinds, DefaultIsAName
       DEF IInv, TypeOK, KeysNeedFolder, Making, Exit, ForgetMemory, files, operator, memory
<1>4. Making'
    BY Kinds, DefaultIsAName
       DEF IInv, TypeOK, Making, KeysNeedFolder, Exit, ForgetMemory, files, operator, memory
<1>5. FilesArePairs'
    BY Kinds, DefaultIsAName
       DEF IInv, TypeOK, FilesArePairs, Making, Exit, ForgetMemory, files, operator, memory
<1>6. KeysAreOnDisk'
    BY Kinds, DefaultIsAName
       DEF IInv, TypeOK, KeysAreOnDisk, Making, NothingInMemory, ListenersHaveKeys, Exit,
           ForgetMemory, files, operator, memory
<1>7. ListenersHaveKeys'
    BY Kinds, DefaultIsAName
       DEF IInv, TypeOK, ListenersHaveKeys, NothingInMemory, Exit, ForgetMemory, files, operator,
           memory
<1>8. LoginLeadsSomewhere'
    BY Kinds, DefaultIsAName
       DEF IInv, TypeOK, LoginLeadsSomewhere, PortTaken, PortOf, ListenersHaveKeys,
           NothingInMemory, Exit, ForgetMemory, files, operator, memory
<1> QED
    BY <1>1, <1>2, <1>3, <1>4, <1>5, <1>6, <1>7, <1>8 DEF IInv

LEMMA NextInv == IInv /\ [Next]_vars => IInv'
<1> SUFFICES ASSUME IInv, [Next]_vars PROVE IInv'
    OBVIOUS
<1>1. CASE UNCHANGED vars
    BY <1>1 DEF IInv, TypeOK, NothingInMemory, KeysNeedFolder, Making, FilesArePairs,
                KeysAreOnDisk, ListenersHaveKeys, LoginLeadsSomewhere, PortTaken, PortOf,
                vars, files, operator, memory
<1>2. ASSUME NEW n \in Names,
             CreateFolder(n) \/ RemoveFolder(n) \/ SupplyKeys(n) \/ StartStep(n)
      PROVE  IInv'
    BY <1>2, CreateStep, RemoveStep, SupplyStep, ReadConfigStep, LoadKeyStep, ResolveStep,
       LoginStep, AuthStep DEF StartStep
<1>3. CASE ManagerStep
    BY <1>3, FindStep, FolderStep, PublicStep, PrivateStep, ConfigStep DEF ManagerStep
<1> QED
    BY <1>1, <1>2, <1>3, EditStep, CrashStep, ExitStep DEF Next

\* ServerManager and Server: the variables keep their types.
THEOREM TypeCorrect == Spec => []TypeOK
<1>1. IInv => TypeOK
    BY DEF IInv
<1> QED
    BY <1>1, InitInv, NextInv, PTL DEF Spec

\* Server.StartAsync serves the key that its folder holds, and both its files, whenever
\* the program has died before and whatever the operator has done.
THEOREM ServedKeyIsOnDisk == Spec => []ServesKeyOnDisk
<1>1. IInv => ServesKeyOnDisk
    <2> SUFFICES ASSUME IInv, NEW u \in up
                 PROVE  LET n == u[1]
                        IN  /\ privateFile[n] = Whole(key[n])
                            /\ Readable(publicFile[n]) /\ Content(publicFile[n]).key = key[n]
        BY DEF ServesKeyOnDisk
    <2>1. u[1] \in Names /\ key[u[1]] # NoKey
        BY DEF IInv, TypeOK, ListenersHaveKeys
    <2>2. privateFile[u[1]] = Whole(key[u[1]])
        BY <2>1 DEF IInv, KeysAreOnDisk
    <2> QED
        BY <2>1, <2>2, Kinds DEF IInv, FilesArePairs
<1> QED
    BY <1>1, InitInv, NextInv, PTL DEF Spec

\* LoginConfig.AuthPort: where a login service sends its clients somebody listens.
THEOREM LoginHasATarget == Spec => []LoginLeadsSomewhere
<1>1. IInv => LoginLeadsSomewhere
    BY DEF IInv
<1> QED
    BY <1>1, InitInv, NextInv, PTL DEF Spec

\* A server listens with the key it once listened with, through crashes and restarts,
\* until the operator replaces it.
THEOREM KeysAreKept == Spec => KeyIsKept
<1>1. IInv /\ [Next]_vars =>
          [ \A n \in Names : issued[n] # NoKey => issued'[n] \in {issued[n], NoKey} ]_vars
    <2> SUFFICES ASSUME IInv, Next, NEW n \in Names, issued[n] # NoKey
                 PROVE  issued'[n] \in {issued[n], NoKey}
        OBVIOUS
    <2>1. ASSUME UNCHANGED issued PROVE issued'[n] \in {issued[n], NoKey}
        BY <2>1
    <2>2. ASSUME NEW m \in Names, issued' = [issued EXCEPT ![m] = NoKey]
          PROVE  issued'[n] \in {issued[n], NoKey}
        BY <2>2 DEF IInv, TypeOK
    <2>3. ASSUME NEW m \in Names, NEW service, NEW before, NEW after,
                 Listen(m, service, before, after), before \in {"keyed", "loginTried"}
          PROVE  issued'[n] \in {issued[n], NoKey}
        <3>1. UNCHANGED issued \/ issued' = [issued EXCEPT ![m] = key[m]]
            BY <2>3 DEF Listen
        <3>2. key[m] # NoKey
            BY <2>3 DEF Listen, IInv, ListenersHaveKeys
        <3>3. issued[m] # NoKey => Whole(issued[m]) = Whole(key[m])
            BY <3>2 DEF IInv, KeysAreOnDisk
        <3>4. issued[m] # NoKey => issued[m] = key[m]
            BY <3>3, Kinds
        <3> QED
            BY <3>1, <3>4 DEF IInv, TypeOK
    <2> QED
        BY <2>1, <2>2, <2>3 DEF Next, StartStep, ManagerStep, CreateFolder, RemoveFolder,
           SupplyKeys, EditConfig, FindServers, MakeFolder, SavePublic, SavePrivate, SaveConfig,
           Crash, ReadConfig, LoadKey, ResolveFails, ListenLogin, ListenAuth, Exit, files
<1> QED
    BY <1>1, InitInv, NextInv, PTL DEF Spec, KeyIsKept
=============================================================================
