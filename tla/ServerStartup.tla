---------------------------- MODULE ServerStartup ----------------------------
(***************************************************************************)
(* How the program comes up: ServerManager finds the server folders or     *)
(* makes the default one, and each Server reads its configuration and its  *)
(* key from its folder and listens on two ports.  Folders outlive a crash, *)
(* which may come between two of the files, or in the middle of one; an    *)
(* operator edits them.                                                    *)
(***************************************************************************)
EXTENDS Naturals, Sequences

CONSTANTS Names,        \* names of server folders
          Default,      \* the one ServerManager makes
          Ports,        \* port numbers
          DefaultLogin, \* the ports of a default configuration
          DefaultAuth,
          MaxKeys,      \* bound: keys that are ever generated or supplied
          MaxEdits      \* bound: configurations the operator writes

ASSUME DefaultIsAName == Default \in Names
ASSUME DefaultPortsDiffer ==
    {DefaultLogin, DefaultAuth} \subseteq Ports /\ DefaultLogin # DefaultAuth
ASSUME BoundsAreNatural == MaxKeys \in Nat /\ MaxEdits \in Nat

VARIABLES
    folder,      \* the folders there are
    publicFile,  \* publickey.pem: which key, and which half of it
    privateFile, \* privatekey.pem: which key
    configFile,  \* config.json: a configuration
    keys,        \* how many keys there have been
    edits,       \* how many configurations the operator wrote
    program,     \* "down", the next step of MakeDefaultServer, or "running"
    newKey,      \* the key MakeDefaultServer generated
    server,      \* Server: "none", "made", "configured", "keyed", "loginTried",
                 \* "started" or "refused" (StartAsync returned false)
    config,      \* Config of a server, in memory
    key,         \* PrivateKey of a server, in memory
    up,          \* the services that listen: pairs of a server and "login" or "auth"
    issued       \* history: the key each folder's server has listened with

files == << folder, publicFile, privateFile, configFile >>
operator == << keys, edits >>
memory == << server, config, key, up >>
vars == << files, operator, program, newKey, memory, issued >>

-----------------------------------------------------------------------------
NoKey == 0
Keys == 1 .. MaxKeys
Configs == [login : Ports, auth : Ports, local : BOOLEAN]

\* new ServerConfig()
DefaultConfig == [login |-> DefaultLogin, auth |-> DefaultAuth, local |-> TRUE]

\* A file is missing, or cannot be read, or has a content.
Missing == << >>
Torn == << "torn" >>
Whole(x) == << "whole", x >>
Readable(f) == Len(f) = 2
Content(f) == f[2]
Files(contents) == {Missing, Torn} \cup {Whole(x) : x \in contents}

PublicKeys == [key : Keys, half : {"public", "private"}]

PortOf(n, service) == IF service = "login" THEN config[n].login ELSE config[n].auth

PortTaken(p) == \E u \in up : PortOf(u[1], u[2]) = p

Init ==
    /\ folder = [n \in Names |-> FALSE]
    /\ publicFile = [n \in Names |-> Missing]
    /\ privateFile = [n \in Names |-> Missing]
    /\ configFile = [n \in Names |-> Missing]
    /\ keys = 0
    /\ edits = 0
    /\ program = "down"
    /\ newKey = NoKey
    /\ server = [n \in Names |-> "none"]
    /\ config = [n \in Names |-> DefaultConfig]
    /\ key = [n \in Names |-> NoKey]
    /\ up = {}
    /\ issued = [n \in Names |-> NoKey]

-----------------------------------------------------------------------------
(* The operator.  Folders and keys are changed while the program is down,  *)
(* a configuration at any time.                                            *)

CreateFolder(n) ==
    /\ program = "down"
    /\ ~folder[n]
    /\ folder' = [folder EXCEPT ![n] = TRUE]
    /\ UNCHANGED << publicFile, privateFile, configFile, operator, program, newKey, memory, issued >>

RemoveFolder(n) ==
    /\ program = "down"
    /\ folder[n]
    /\ folder' = [folder EXCEPT ![n] = FALSE]
    /\ publicFile' = [publicFile EXCEPT ![n] = Missing]
    /\ privateFile' = [privateFile EXCEPT ![n] = Missing]
    /\ configFile' = [configFile EXCEPT ![n] = Missing]
    /\ issued' = [issued EXCEPT ![n] = NoKey]
    /\ UNCHANGED << operator, program, newKey, memory >>

SupplyKeys(n) ==
    /\ program = "down"
    /\ folder[n]
    /\ keys < MaxKeys
    /\ keys' = keys + 1
    /\ publicFile' = [publicFile EXCEPT ![n] = Whole([key |-> keys', half |-> "public"])]
    /\ privateFile' = [privateFile EXCEPT ![n] = Whole(keys')]
    /\ issued' = [issued EXCEPT ![n] = NoKey]
    /\ UNCHANGED << folder, configFile, edits, program, newKey, memory >>

EditConfig(n, c) ==
    /\ folder[n]
    /\ edits < MaxEdits
    /\ edits' = edits + 1
    /\ configFile' = [configFile EXCEPT ![n] = c]
    /\ UNCHANGED << folder, publicFile, privateFile, keys, program, newKey, memory, issued >>

-----------------------------------------------------------------------------
(* ServerManager: the constructor *)

ForgetMemory ==
    /\ program' = "down"
    /\ newKey' = NoKey
    /\ server' = [n \in Names |-> "none"]
    /\ config' = [n \in Names |-> DefaultConfig]
    /\ key' = [n \in Names |-> NoKey]
    /\ up' = {}

\* Folders are found: a Server for each, with nothing read yet.
FindServers ==
    /\ program = "down"
    /\ \E n \in Names : folder[n]
    /\ program' = "running"
    /\ server' = [n \in Names |-> IF folder[n] THEN "made" ELSE "none"]
    /\ UNCHANGED << files, operator, newKey, config, key, up, issued >>

\* No folder is found: MakeDefaultServer makes one and generates a key.
MakeFolder ==
    /\ program = "down"
    /\ \A n \in Names : ~folder[n]
    /\ keys < MaxKeys
    /\ folder' = [folder EXCEPT ![Default] = TRUE]
    /\ keys' = keys + 1
    /\ newKey' = keys'
    /\ program' = "savePublic"
    /\ UNCHANGED << publicFile, privateFile, configFile, edits, memory, issued >>

\* RSAKey.Save writes the private key to both files, the public one first.
SavePublic ==
    /\ program = "savePublic"
    /\ publicFile' = [publicFile EXCEPT ![Default] = Whole([key |-> newKey, half |-> "private"])]
    /\ program' = "savePrivate"
    /\ UNCHANGED << folder, privateFile, configFile, operator, newKey, memory, issued >>

\* Faulty variant: the pair's other half comes from a key generated anew.
SavePrivate_Another ==
    /\ program = "savePrivate"
    /\ keys < MaxKeys
    /\ keys' = keys + 1
    /\ privateFile' = [privateFile EXCEPT ![Default] = Whole(keys')]
    /\ program' = "saveConfig"
    /\ UNCHANGED << folder, publicFile, configFile, edits, newKey, memory, issued >>

SavePrivate ==
    /\ program = "savePrivate"
    /\ privateFile' = [privateFile EXCEPT ![Default] = Whole(newKey)]
    /\ program' = "saveConfig"
    /\ UNCHANGED << folder, publicFile, configFile, operator, newKey, memory, issued >>

\* The last file; the server starts with the key and configuration in memory.
SaveConfig ==
    /\ program = "saveConfig"
    /\ configFile' = [configFile EXCEPT ![Default] = Whole(DefaultConfig)]
    /\ program' = "running"
    /\ server' = [server EXCEPT ![Default] = "configured"]
    /\ config' = [config EXCEPT ![Default] = DefaultConfig]
    /\ key' = [key EXCEPT ![Default] = newKey]
    /\ newKey' = NoKey
    /\ UNCHANGED << folder, publicFile, privateFile, operator, up, issued >>

\* The program dies, possibly in the middle of the file it is writing.
Crash ==
    /\ program # "down"
    /\ \/ UNCHANGED files
       \/ /\ program = "savePublic"
          /\ publicFile' = [publicFile EXCEPT ![Default] = Torn]
          /\ UNCHANGED << folder, privateFile, configFile >>
       \/ /\ program = "savePrivate"
          /\ privateFile' = [privateFile EXCEPT ![Default] = Torn]
          /\ UNCHANGED << folder, publicFile, configFile >>
       \/ /\ program = "saveConfig"
          /\ configFile' = [configFile EXCEPT ![Default] = Torn]
          /\ UNCHANGED << folder, publicFile, privateFile >>
       \/ \E n \in Names :
             /\ server[n] = "made"
             /\ configFile[n] = Missing
             /\ configFile' = [configFile EXCEPT ![n] = Torn]
             /\ UNCHANGED << folder, publicFile, privateFile >>
    /\ ForgetMemory
    /\ UNCHANGED << operator, issued >>

-----------------------------------------------------------------------------
(* Server.StartAsync, one step for each file and port.  Servers whose host *)
(* names are resolved go on at any time, so steps of servers interleave.   *)

Becomes(n, state) == server' = [server EXCEPT ![n] = state]

\* A missing configuration is replaced by the default one and saved; one that
\* cannot be read is replaced in memory only.
ReadConfig(n) ==
    /\ program = "running"
    /\ server[n] = "made"
    /\ Becomes(n, "configured")
    /\ \/ /\ configFile[n] = Missing
          /\ config' = [config EXCEPT ![n] = DefaultConfig]
          /\ configFile' = [configFile EXCEPT ![n] = Whole(DefaultConfig)]
       \/ /\ configFile[n] = Torn
          /\ config' = [config EXCEPT ![n] = DefaultConfig]
          /\ UNCHANGED configFile
       \/ /\ Readable(configFile[n])
          /\ config' = [config EXCEPT ![n] = Content(configFile[n])]
          /\ UNCHANGED configFile
    /\ UNCHANGED << folder, publicFile, privateFile, operator, program, newKey, key, up, issued >>

\* Faulty variant: a key that cannot be loaded is replaced by a new one that is
\* not saved.
LoadKey_Replaces(n) ==
    /\ program = "running"
    /\ server[n] = "configured"
    /\ Becomes(n, "keyed")
    /\ \/ /\ ~Readable(privateFile[n]) /\ keys < MaxKeys
          /\ keys' = keys + 1
          /\ key' = [key EXCEPT ![n] = keys']
       \/ /\ Readable(privateFile[n])
          /\ key' = [key EXCEPT ![n] = Content(privateFile[n])]
          /\ UNCHANGED keys
    /\ UNCHANGED << files, edits, program, newKey, config, up, issued >>

\* Faulty variant: the server waits for a key to appear.
LoadKey_Waits(n) ==
    /\ program = "running"
    /\ server[n] = "configured"
    /\ Readable(privateFile[n])
    /\ Becomes(n, "keyed")
    /\ key' = [key EXCEPT ![n] = Content(privateFile[n])]
    /\ UNCHANGED << files, operator, program, newKey, config, up, issued >>

LoadKey(n) ==
    /\ program = "running"
    /\ server[n] = "configured"
    /\ \/ key[n] # NoKey /\ Becomes(n, "keyed") /\ UNCHANGED key
       \/ key[n] = NoKey /\ ~Readable(privateFile[n]) /\ Becomes(n, "refused") /\ UNCHANGED key
       \/ /\ key[n] = NoKey /\ Readable(privateFile[n])
          /\ Becomes(n, "keyed")
          /\ key' = [key EXCEPT ![n] = Content(privateFile[n])]
    /\ UNCHANGED << files, operator, program, newKey, config, up, issued >>

\* A host name is not resolved, or not to an IPv4 address.
ResolveFails(n) ==
    /\ program = "running"
    /\ server[n] = "keyed"
    /\ ~config[n].local
    /\ Becomes(n, "refused")
    /\ UNCHANGED << files, operator, program, newKey, config, key, up, issued >>

\* Listener.Start throws inside ListenAsync if the port is taken: that service
\* is not up, and StartAsync goes on with the other.
Listen(n, service, before, after) ==
    /\ program = "running"
    /\ server[n] = before
    /\ Becomes(n, after)
    /\ \/ PortTaken(PortOf(n, service)) /\ UNCHANGED << up, issued >>
       \/ /\ ~PortTaken(PortOf(n, service))
          /\ up' = up \cup {<< n, service >>}
          /\ issued' = [issued EXCEPT ![n] = key[n]]
    /\ UNCHANGED << files, operator, program, newKey, config, key >>

\* Faulty variant: the authentication service is never told to listen.
ListenAuth_Skipped(n) ==
    /\ program = "running"
    /\ server[n] = "loginTried"
    /\ Becomes(n, "started")
    /\ UNCHANGED << files, operator, program, newKey, config, key, up, issued >>

ListenLogin(n) == Listen(n, "login", "keyed", "loginTried")
ListenAuth(n) == Listen(n, "auth", "loginTried", "started")

\* No service is up any more: Main returns.
Exit ==
    /\ program = "running"
    /\ \A n \in Names : server[n] \in {"none", "started", "refused"}
    /\ up = {}
    /\ ForgetMemory
    /\ UNCHANGED << files, operator, issued >>

StartStep(n) ==
    \/ ReadConfig(n) \/ LoadKey(n) \/ ResolveFails(n)
    \/ ListenLogin(n) \/ ListenAuth(n)

ManagerStep == FindServers \/ MakeFolder \/ SavePublic \/ SavePrivate \/ SaveConfig

Next ==
    \/ \E n \in Names : CreateFolder(n) \/ RemoveFolder(n) \/ SupplyKeys(n) \/ StartStep(n)
    \/ \E n \in Names, c \in Files(Configs) \ {Missing} : EditConfig(n, c)
    \/ ManagerStep
    \/ Crash
    \/ Exit

\* The program runs on once it was started.
Fairness ==
    /\ WF_vars(SavePublic \/ SavePrivate \/ SaveConfig)
    /\ \A n \in Names : WF_vars(StartStep(n))

Spec == Init /\ [][Next]_vars /\ Fairness

-----------------------------------------------------------------------------
(* Properties *)

\* The type of every variable.
TypeOK ==
    /\ folder \in [Names -> BOOLEAN]
    /\ publicFile \in [Names -> Files(PublicKeys)]
    /\ privateFile \in [Names -> Files(Keys)]
    /\ configFile \in [Names -> Files(Configs)]
    /\ keys \in 0 .. MaxKeys
    /\ edits \in 0 .. MaxEdits
    /\ program \in {"down", "savePublic", "savePrivate", "saveConfig", "running"}
    /\ newKey \in Keys \cup {NoKey}
    /\ server \in [Names -> {"none", "made", "configured", "keyed", "loginTried",
                             "started", "refused"}]
    /\ config \in [Names -> Configs]
    /\ key \in [Names -> Keys \cup {NoKey}]
    /\ up \subseteq Names \X {"login", "auth"}
    /\ issued \in [Names -> Keys \cup {NoKey}]

\* A server listens only with the key that is in its folder, the pair's public
\* file with it: what a crash has left half made is never served, and the key a
\* client was given works after every restart (LoadKey, MakeDefaultServer).
ServesKeyOnDisk ==
    \A u \in up :
        LET n == u[1]
        IN  /\ privateFile[n] = Whole(key[n])
            /\ Readable(publicFile[n]) /\ Content(publicFile[n]).key = key[n]

\* Once a server has listened with a key its folder's server never listens with
\* another, through crashes and restarts, until the operator replaces the keys.
KeyIsKept ==
    [][ \A n \in Names :
          issued[n] # NoKey => issued'[n] \in {issued[n], NoKey} ]_vars

\* A login service whose server has no authentication service sends its clients
\* to a port that another service of this program took before, never to one
\* where nothing listens (LoginConfig.AuthPort, Server.StartAsync).
LoginLeadsSomewhere ==
    \A n \in Names :
        << n, "login" >> \in up /\ server[n] = "started" => PortTaken(config[n].auth)

\* Every start comes to an end: unless the program dies, each server it found
\* listens, is refused or has found its ports taken.
StartupSettles ==
    \A n \in Names :
        server[n] = "made" ~> server[n] \in {"started", "refused", "none"}

-----------------------------------------------------------------------------
\* README.md tells the player to install the publickey.pem the server made: it
\* should hold the public half of the key only.
PublicFileIsPublic ==
    \A n \in Names : Readable(publicFile[n]) => Content(publicFile[n]).half = "public"
=============================================================================
