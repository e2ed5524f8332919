---------------------------- MODULE LocalIdentity ----------------------------
(***************************************************************************)
(* Who the agent is: the role, control server, device name, token and      *)
(* device id in its configuration, which the running UI                    *)
(* (agent.LocalController) keeps in memory and in a file that command      *)
(* lines read and write too, and the device rows on the control servers.   *)
(*                                                                         *)
(* UpdateSettings, Login and RegisterDevice of the UI exclude each other   *)
(* by LocalController.mu and are one step each; a command line is a        *)
(* process of its own that loads the file, asks the server and saves.      *)
(* Connect and ProviderInit take a copy of the configuration, and end with *)
(* an incomplete recovery snapshot.  Any request may be refused, or its    *)
(* answer lost; any write of the file may fail and leave a torn file.      *)
(***************************************************************************)
CONSTANTS
  Servers,        \* control servers
  DefaultServer,  \* the one of config.Default
  Users,
  Names,          \* device names
  Hostname,       \* the name a device without a configured one registers with
  DeviceIds,      \* bound: the random ids that servers and agents draw
  Overrides,      \* servers that "ui --server-url" or the launcher may set
  RoleLocked,     \* role that "ui --role" or the launcher locks, or None
  None,           \* no name, token, id, file or process
  Broken          \* the content of a file that no process can load

Roles == {"provider", "consumer"}

Tokens == [server : Servers, user : Users]

Configs ==
  [role : Roles, server : Servers, name : Names \cup {None},
   token : Tokens \cup {None}, device : DeviceIds \cup {None}]

Rows == [server : Servers, id : DeviceIds, user : Users, name : Names]

ASSUME IdentityAssumption ==
  /\ DefaultServer \in Servers /\ Overrides \subseteq Servers
  /\ Hostname \in Names
  /\ RoleLocked \in {"provider", "consumer", None}
  /\ None # Broken /\ {None, Broken} \cap Configs = {}
  /\ None \notin Servers \cup Users \cup Names \cup DeviceIds \cup {"provider", "consumer"}

VARIABLES
  memory,    \* configuration of the running UI
  file,      \* configuration file
  rows,      \* device rows of the control servers
  command,   \* configuration held by the command line that runs
  job,       \* a set-up is under way, its snapshot not saved yet
  setup      \* there is an incomplete snapshot

vars == <<memory, file, rows, command, job, setup>>

Default ==
  [role |-> "consumer", server |-> DefaultServer, name |-> None, token |-> None, device |-> None]

NoCommand == [pc |-> "idle", conf |-> None]

Init ==
  /\ memory = None /\ file = None
  /\ rows = {}
  /\ command = NoCommand
  /\ job = FALSE /\ setup = FALSE

-----------------------------------------------------------------------------
(* The configuration file *)

Save(c) == file' = c

\* WriteFile truncates the file before it writes.
SaveFails == file' \in {file, Broken}

Load == IF file = None THEN Default ELSE file

\* Starting the UI applies the options and saves the result.
Start(server, role) ==
  /\ memory = None /\ file # Broken
  /\ server \in Overrides \cup {Load.server}
  /\ role = IF RoleLocked = None THEN Load.role ELSE RoleLocked
  /\ LET c == [Load EXCEPT !.server = server, !.role = role] IN
     \/ memory' = c /\ Save(c)
     \/ UNCHANGED memory /\ SaveFails
  /\ UNCHANGED <<rows, command, job, setup>>

-----------------------------------------------------------------------------
(* The control server *)

\* withUser: a token is only known to the server that issued it.
Accepted(c) == c.token # None /\ c.token.server = c.server

\* Faulty: the name is sent as it is configured.
NameAsGiven(c) == c.name

\* The name RegisterDevice sends.
NameOf(c) == IF c.name = None THEN Hostname ELSE c.name

RowsOf(c) == {r \in rows : r.server = c.server /\ r.user = c.token.user /\ r.name = NameOf(c)}

\* Faulty: a new row takes the place of the one of that user and name.
UpsertReplacing(c, d) ==
  /\ Accepted(c)
  /\ \A r \in rows : r.id # d
  /\ rows' = (rows \ RowsOf(c))
               \cup {[server |-> c.server, id |-> d, user |-> c.token.user, name |-> NameOf(c)]}

\* UpsertDevice answers with the row of that user and name; without one it
\* inserts the id that was sent, or else a new one, unless the id is taken.
UpsertDevice(c, d) ==
  /\ Accepted(c)
  /\ \/ /\ RowsOf(c) # {}
        /\ \E r \in RowsOf(c) : d = r.id
        /\ UNCHANGED rows
     \/ /\ RowsOf(c) = {}
        /\ IF c.device # None THEN d = c.device /\ \A r \in rows : r.id = d => r.server # c.server
           ELSE \A r \in rows : r.id # d
        /\ rows' = rows \cup
             {[server |-> c.server, id |-> d, user |-> c.token.user, name |-> NameOf(c)]}

\* The device is one of the user who is logged in.
Owned(c) ==
  /\ Accepted(c)
  /\ \E r \in rows : r.server = c.server /\ r.id = c.device /\ r.user = c.token.user

Registered(c, d) == [c EXCEPT !.device = d, !.name = NameOf(c)]

LoggedIn(c, u) == [c EXCEPT !.token = [server |-> c.server, user |-> u]]

-----------------------------------------------------------------------------
(* The running UI *)

\* Faulty: the credentials stay when the server changes.
UpdatedCarelessly(c, role, server, name) ==
  [c EXCEPT !.role = role, !.server = server, !.name = name,
            !.device = IF name # c.name THEN None ELSE @]

\* Another role or server clears the credentials, another name the device id.
Updated(c, role, server, name) ==
  LET moved == role # c.role \/ server # c.server IN
  [role |-> role, server |-> server, name |-> name,
   token |-> IF moved THEN None ELSE c.token,
   device |-> IF moved \/ name # c.name THEN None ELSE c.device]

\* A name left blank does not count.
ChangesIdentity(c, role, server, name) ==
  role # c.role \/ server # c.server \/ (name # None /\ name # c.name)

UpdateSettings(role, server, name) ==
  /\ memory # None
  /\ RoleLocked # None => role = RoleLocked
  /\ ~ (ChangesIdentity(memory, role, server, name) /\ setup)
  /\ LET c == Updated(memory, role, server, name) IN
     \/ memory' = c /\ Save(c)
     \/ UNCHANGED memory /\ SaveFails
  /\ UNCHANGED <<rows, command, job, setup>>

\* The device id stays, also when another user logs in.
Login(u) ==
  /\ memory # None
  /\ LET c == LoggedIn(memory, u) IN
     \/ memory' = c /\ Save(c)
     \/ UNCHANGED memory /\ SaveFails
  /\ UNCHANGED <<rows, command, job, setup>>

\* The memory has the answer before the file, and keeps it if that fails.
RegisterDevice(d) ==
  /\ memory # None
  /\ UpsertDevice(memory, d)
  /\ \/ memory' = Registered(memory, d) /\ (Save(memory') \/ SaveFails)
     \/ UNCHANGED <<memory, file>>     \* the answer is lost
  /\ UNCHANGED <<command, job, setup>>

-----------------------------------------------------------------------------
(* Command lines: login and register-device *)

\* register-device needs a file; its --role is saved with the answer.
CommandStarts(pc, role) ==
  /\ command = NoCommand /\ file # Broken
  /\ \/ pc = "login" /\ role = Load.role
     \/ pc = "register" /\ file # None
  /\ command' = [pc |-> pc, conf |-> [Load EXCEPT !.role = role]]
  /\ UNCHANGED <<memory, file, rows, job, setup>>

CommandLogin(u) ==
  /\ command.pc = "login"
  /\ command' = [pc |-> "save", conf |-> LoggedIn(command.conf, u)]
  /\ UNCHANGED <<memory, file, rows, job, setup>>

CommandRegister(d) ==
  /\ command.pc = "register"
  /\ UpsertDevice(command.conf, d)
  /\ command' = [pc |-> "save", conf |-> Registered(command.conf, d)]
  /\ UNCHANGED <<memory, file, job, setup>>

\* The whole configuration is written back, as it was loaded.
CommandSaves ==
  /\ command.pc = "save"
  /\ Save(command.conf) \/ SaveFails
  /\ command' = NoCommand
  /\ UNCHANGED <<memory, rows, job, setup>>

CommandFails ==
  /\ command # NoCommand
  /\ command' = NoCommand
  /\ UNCHANGED <<memory, file, rows, job, setup>>

-----------------------------------------------------------------------------
(* Set-ups *)

\* Connect needs the token of the device's owner, ProviderInit nothing.
SetUpStarts ==
  /\ memory # None /\ ~ job
  /\ memory.role = "consumer" => Owned(memory)
  /\ job' = TRUE
  /\ UNCHANGED <<memory, file, rows, command, setup>>

\* The snapshot is saved unless there is a tunnel already.
SetUpSaves ==
  /\ job /\ ~ setup
  /\ setup' = TRUE
  /\ job' = FALSE
  /\ UNCHANGED <<memory, file, rows, command>>

SetUpFails ==
  /\ job
  /\ job' = FALSE
  /\ UNCHANGED <<memory, file, rows, command, setup>>

\* Disconnect or Repair, by the UI or a command line.
CleanUp ==
  /\ setup
  /\ setup' = FALSE
  /\ UNCHANGED <<memory, file, rows, command, job>>

\* Shutdown cleans up before the process ends; a killed process does not.
Stop ==
  /\ memory # None
  /\ memory' = None /\ job' = FALSE
  /\ setup' \in {setup, FALSE}
  /\ UNCHANGED <<file, rows, command>>

-----------------------------------------------------------------------------
Next ==
  \/ \E r \in Roles, s \in Servers : Start(s, r)
  \/ \E r \in Roles, s \in Servers, n \in Names \cup {None} : UpdateSettings(r, s, n)
  \/ \E u \in Users : Login(u) \/ CommandLogin(u)
  \/ \E d \in DeviceIds : RegisterDevice(d) \/ CommandRegister(d)
  \/ \E pc \in {"login", "register"}, r \in Roles : CommandStarts(pc, r)
  \/ CommandSaves \/ CommandFails
  \/ SetUpStarts \/ SetUpSaves \/ SetUpFails \/ CleanUp \/ Stop

Spec == Init /\ [][Next]_vars

-----------------------------------------------------------------------------
TypeOK ==
  /\ memory \in Configs \cup {None}
  /\ file \in Configs \cup {None, Broken}
  /\ rows \subseteq Rows
  /\ command \in [pc : {"login", "register", "save"}, conf : Configs] \cup {NoCommand}
  /\ job \in BOOLEAN /\ setup \in BOOLEAN

Consistent(c) ==
  /\ c.token # None => c.token.server = c.server
  /\ c.device # None =>
       \E r \in rows : r.server = c.server /\ r.id = c.device /\ r.name = c.name

\* Wherever the configuration is copied to, and however UI and command lines
\* overtake each other: the token was issued by the configured server, and the
\* device id is that of a row of this server with the configured name
\* (UpdateSettings, Login, RegisterDevice and their command lines).
CredentialsBelongTogether ==
  \A c \in ({memory, file, command.conf} \ {None, Broken}) : Consistent(c)

\* A device that registers again, after a restart or because the answer was
\* lost, keeps its row and its id, which its sessions and shares refer to, for as
\* long as its owner changes no setting and stays logged in (UpsertDevice).
RegistrationIsRepeatable ==
  [][ /\ rows \subseteq rows'
      /\ memory # None /\ memory' # None /\ Owned(memory)
           /\ memory = [memory' EXCEPT !.device = memory.device]
         => memory' = memory ]_vars

=============================================================================
