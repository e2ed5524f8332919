------------------------ MODULE LocalIdentityProofs ------------------------
(***************************************************************************)
(* Proofs about LocalIdentity, for any number of servers, users, names and *)
(* ids.                                                                    *)
(***************************************************************************)
EXTENDS LocalIdentity, TLAPS

LEMMA ConfTypes ==
  ASSUME NEW c \in Configs
  PROVE  /\ c.role \in Roles /\ c.server \in Servers /\ c.name \in Names \cup {None}
         /\ c.token \in Tokens \cup {None} /\ c.device \in DeviceIds \cup {None}
BY DEF Configs

\* Neither "no configuration" nor a torn file is a configuration.
LEMMA ConfsAreReal == None \notin Configs /\ Broken \notin Configs /\ None # Broken
BY IdentityAssumption

LEMMA DefaultType == Default \in Configs
BY IdentityAssumption DEF Default, Configs, Roles

LEMMA LoadType == TypeOK /\ file # Broken => Load \in Configs
BY DefaultType DEF TypeOK, Load

LEMMA NameType == ASSUME NEW c \in Configs PROVE NameOf(c) \in Names
BY IdentityAssumption DEF NameOf, Configs

LEMMA RegisteredType ==
  ASSUME NEW c \in Configs, NEW d \in DeviceIds
  PROVE  Registered(c, d) \in Configs
BY NameType DEF Registered, Configs

LEMMA LoggedInType ==
  ASSUME NEW c \in Configs, NEW u \in Users
  PROVE  LoggedIn(c, u) \in Configs
BY DEF LoggedIn, Configs, Tokens

LEMMA UpdatedType ==
  ASSUME NEW c \in Configs, NEW r \in Roles, NEW s \in Servers, NEW n \in Names \cup {None}
  PROVE  Updated(c, r, s, n) \in Configs
BY DEF Updated, Configs

LEMMA UpsertType ==
  ASSUME rows \subseteq Rows, NEW c \in Configs, NEW d \in DeviceIds, UpsertDevice(c, d)
  PROVE  rows' \subseteq Rows
<1>1. CASE UNCHANGED rows
  BY <1>1
<1>2. CASE rows' = rows \cup
             {[server |-> c.server, id |-> d, user |-> c.token.user, name |-> NameOf(c)]}
  <2>1. c.token \in Tokens
    BY DEF UpsertDevice, Accepted, Configs
  <2>2. /\ c.server \in Servers /\ c.token.user \in Users /\ NameOf(c) \in Names
    BY <2>1, NameType DEF Configs, Tokens
  <2> QED
    BY <1>2, <2>2 DEF Rows
<1> QED
  BY <1>1, <1>2 DEF UpsertDevice

LEMMA CommandConf ==
  ASSUME TypeOK, command # NoCommand
  PROVE  /\ command.pc \in {"login", "register", "save"}
         /\ command.conf \in Configs
BY DEF TypeOK

-----------------------------------------------------------------------------
(* Types *)

LEMMA TypingInit == Init => TypeOK
BY DEF Init, TypeOK

LEMMA TypingStep ==
  ASSUME TypeOK, [Next]_vars
  PROVE  TypeOK'
<1>1. ASSUME NEW r \in Roles, NEW s \in Servers, Start(s, r)
      PROVE  TypeOK'
  <2>1. [Load EXCEPT !.server = s, !.role = r] \in Configs
    BY <1>1, LoadType DEF Start, Configs
  <2> QED
    BY <1>1, <2>1 DEF Start, Save, SaveFails, TypeOK
<1>2. ASSUME NEW r \in Roles, NEW s \in Servers, NEW n \in Names \cup {None}, UpdateSettings(r, s, n)
      PROVE  TypeOK'
  <2>1. Updated(memory, r, s, n) \in Configs
    BY <1>2, UpdatedType DEF UpdateSettings, TypeOK
  <2> QED
    BY <1>2, <2>1 DEF UpdateSettings, Save, SaveFails, TypeOK
<1>3. ASSUME NEW u \in Users, Login(u)
      PROVE  TypeOK'
  <2>1. LoggedIn(memory, u) \in Configs
    BY <1>3, LoggedInType DEF Login, TypeOK
  <2> QED
    BY <1>3, <2>1 DEF Login, Save, SaveFails, TypeOK
<1>4. ASSUME NEW d \in DeviceIds, RegisterDevice(d)
      PROVE  TypeOK'
  <2>1. memory \in Configs
    BY <1>4 DEF RegisterDevice, TypeOK
  <2>2. rows' \subseteq Rows
    BY <1>4, <2>1, UpsertType DEF RegisterDevice, TypeOK
  <2>3. Registered(memory, d) \in Configs
    BY <2>1, RegisteredType
  <2> QED
    BY <1>4, <2>2, <2>3 DEF RegisterDevice, Save, SaveFails, TypeOK
<1>5. ASSUME NEW pc \in {"login", "register"}, NEW r \in Roles, CommandStarts(pc, r)
      PROVE  TypeOK'
  <2>1. [Load EXCEPT !.role = r] \in Configs
    BY <1>5, LoadType DEF CommandStarts, Configs
  <2> QED
    BY <1>5, <2>1 DEF CommandStarts, TypeOK
<1>6. ASSUME NEW u \in Users, CommandLogin(u)
      PROVE  TypeOK'
  <2>1. command.conf \in Configs
    BY <1>6, CommandConf DEF CommandLogin, NoCommand
  <2>2. LoggedIn(command.conf, u) \in Configs
    BY <2>1, LoggedInType
  <2> QED
    BY <1>6, <2>2 DEF CommandLogin, TypeOK
<1>7. ASSUME NEW d \in DeviceIds, CommandRegister(d)
      PROVE  TypeOK'
  <2>1. command.conf \in Configs
    BY <1>7, CommandConf DEF CommandRegister, NoCommand
  <2>2. rows' \subseteq Rows
    BY <1>7, <2>1, UpsertType DEF CommandRegister, TypeOK
  <2>3. Registered(command.conf, d) \in Configs
    BY <2>1, RegisteredType
  <2> QED
    BY <1>7, <2>2, <2>3 DEF CommandRegister, TypeOK
<1>8. CASE CommandSaves
  <2>1. command.conf \in Configs
    BY <1>8, CommandConf DEF CommandSaves, NoCommand
  <2> QED
    BY <1>8, <2>1 DEF CommandSaves, Save, SaveFails, TypeOK
<1>9. CASE SetUpStarts
  BY <1>9 DEF SetUpStarts, TypeOK, Configs
<1>10. CASE CommandFails \/ SetUpSaves \/ SetUpFails \/ CleanUp \/ Stop
  BY <1>10 DEF CommandFails, SetUpSaves, SetUpFails, CleanUp, Stop, TypeOK
<1>11. CASE UNCHANGED vars
  BY <1>11 DEF vars, TypeOK
<1> QED
  BY <1>1, <1>2, <1>3, <1>4, <1>5, <1>6, <1>7, <1>8, <1>9, <1>10, <1>11 DEF Next

\* Configurations, rows and set-ups keep their shape, whatever fails between
\* memory, file and server.
THEOREM Typing == Spec => []TypeOK
BY TypingInit, TypingStep, PTL DEF Spec

-----------------------------------------------------------------------------
(* Rows and credentials *)

\* The primary key and the unique index of the devices table.
RowsAreKeyed ==
  \A r, q \in rows :
    r.server = q.server /\ (r.id = q.id \/ (r.user = q.user /\ r.name = q.name)) => r = q

IdentityInv == TypeOK /\ RowsAreKeyed /\ CredentialsBelongTogether

\* A row is inserted under an id, and under a user and name, that are not taken.
LEMMA UpsertKeepsKeys ==
  ASSUME TypeOK, RowsAreKeyed, NEW c \in Configs, NEW d \in DeviceIds, UpsertDevice(c, d)
  PROVE  RowsAreKeyed'
<1>1. CASE UNCHANGED rows
  BY <1>1 DEF RowsAreKeyed
<1>2. CASE RowsOf(c) = {} /\ rows' # rows
  <2> DEFINE new == [server |-> c.server, id |-> d, user |-> c.token.user, name |-> NameOf(c)]
  <2>1. rows' = rows \cup {new}
    BY <1>2 DEF UpsertDevice
  <2>2. \A r \in rows : r.server = new.server => r.id # new.id
    BY <1>2 DEF UpsertDevice
  <2>3. \A r \in rows : r.server = new.server => ~ (r.user = new.user /\ r.name = new.name)
    BY <1>2 DEF RowsOf
  <2> HIDE DEF new
  <2> QED
    BY <2>1, <2>2, <2>3 DEF RowsAreKeyed
<1> QED
  BY <1>1, <1>2 DEF UpsertDevice

\* The row a registration answers with is there, and none is lost.
LEMMA UpsertFindsRow ==
  ASSUME TypeOK, NEW c \in Configs, NEW d \in DeviceIds, UpsertDevice(c, d)
  PROVE  /\ rows \subseteq rows'
         /\ \E r \in rows' : r.server = c.server /\ r.id = d /\ r.name = NameOf(c)
<1>1. CASE RowsOf(c) # {}
  BY <1>1 DEF UpsertDevice, RowsOf
<1>2. CASE RowsOf(c) = {}
  <2> DEFINE new == [server |-> c.server, id |-> d, user |-> c.token.user, name |-> NameOf(c)]
  <2>1. rows' = rows \cup {new}
    BY <1>2 DEF UpsertDevice
  <2>2. new.server = c.server /\ new.id = d /\ new.name = NameOf(c)
    OBVIOUS
  <2> HIDE DEF new
  <2> QED
    BY <2>1, <2>2
<1> QED
  BY <1>1, <1>2

\* Rows are never removed, so what a configuration refers to stays.
LEMMA ConsistentStays ==
  ASSUME NEW c, rows \subseteq rows', Consistent(c)
  PROVE  Consistent(c)'
BY DEF Consistent

LEMMA RowsStep ==
  ASSUME TypeOK, RowsAreKeyed, [Next]_vars
  PROVE  RowsAreKeyed' /\ rows \subseteq rows'
<1>1. ASSUME NEW d \in DeviceIds, RegisterDevice(d)
      PROVE  RowsAreKeyed' /\ rows \subseteq rows'
  <2>1. memory \in Configs /\ UpsertDevice(memory, d)
    BY <1>1 DEF RegisterDevice, TypeOK
  <2> QED
    BY <2>1, UpsertKeepsKeys, UpsertFindsRow
<1>2. ASSUME NEW d \in DeviceIds, CommandRegister(d)
      PROVE  RowsAreKeyed' /\ rows \subseteq rows'
  <2>1. command.conf \in Configs /\ UpsertDevice(command.conf, d)
    BY <1>2, CommandConf DEF CommandRegister, NoCommand
  <2> QED
    BY <2>1, UpsertKeepsKeys, UpsertFindsRow
<1>3. CASE UNCHANGED rows
  BY <1>3 DEF RowsAreKeyed
<1> QED
  BY <1>1, <1>2, <1>3
  DEF Next, Start, UpdateSettings, Login, CommandStarts, CommandLogin, CommandSaves,
      CommandFails, SetUpStarts, SetUpSaves, SetUpFails, CleanUp, Stop, vars

\* Starting from a file that is consistent keeps the server unless an option
\* overrides it.
LEMMA LoadConsistent ==
  ASSUME TypeOK, CredentialsBelongTogether, file # Broken
  PROVE  Consistent(Load)
BY DEF CredentialsBelongTogether, Load, Default, Consistent, TypeOK

LEMMA CredentialsStep ==
  ASSUME Overrides = {}, IdentityInv, [Next]_vars
  PROVE  CredentialsBelongTogether'
<1> USE DEF IdentityInv
<1>0. rows \subseteq rows'
  BY RowsStep
<1>1. ASSUME NEW c \in {memory, file, command.conf} \ {None, Broken}
      PROVE  Consistent(c)'
  BY <1>0, <1>1, ConsistentStays DEF CredentialsBelongTogether
<1>2. ASSUME NEW c \in Configs, Consistent(c)',
             memory' \in {memory, c, None}, file' \in {file, c, Broken}, command' = command
      PROVE  CredentialsBelongTogether'
  BY <1>1, <1>2 DEF CredentialsBelongTogether
<1>3. ASSUME NEW c \in Configs, Consistent(c)',
             memory' = memory, file' = file, command'.conf = c
      PROVE  CredentialsBelongTogether'
  BY <1>1, <1>3 DEF CredentialsBelongTogether
<1>4. ASSUME NEW r \in Roles, NEW s \in Servers, Start(s, r)
      PROVE  CredentialsBelongTogether'
  <2>1. PICK c \in Configs : c = [Load EXCEPT !.server = s, !.role = r]
    BY <1>4, LoadType DEF Start, Configs
  <2>2. Consistent(c)
    <3>1. Consistent(Load) /\ Load \in Configs /\ s = Load.server
      BY <1>4, LoadConsistent, LoadType DEF Start
    <3>2. c.token = Load.token /\ c.device = Load.device /\ c.server = Load.server /\ c.name = Load.name
      BY <2>1, <3>1 DEF Configs
    <3> QED
      BY <3>1, <3>2 DEF Consistent
  <2>3. Consistent(c)'
    BY <1>0, <2>2, ConsistentStays
  <2> QED
    BY <1>2, <1>4, <2>1, <2>3 DEF Start, Save, SaveFails
<1>5. ASSUME NEW r \in Roles, NEW s \in Servers, NEW n \in Names \cup {None}, UpdateSettings(r, s, n)
      PROVE  CredentialsBelongTogether'
  <2>0. memory \in Configs
    BY <1>5 DEF UpdateSettings, TypeOK
  <2>1. PICK c \in Configs : c = Updated(memory, r, s, n)
    BY <2>0, UpdatedType
  <2>2. Consistent(c)
    <3>1. Consistent(memory)
      BY <1>5, <2>0, ConfsAreReal DEF UpdateSettings, CredentialsBelongTogether
    <3> QED
      BY <2>1, <3>1 DEF Consistent, Updated
  <2>3. Consistent(c)'
    BY <1>0, <2>2, ConsistentStays
  <2> QED
    BY <1>2, <1>5, <2>1, <2>3 DEF UpdateSettings, Save, SaveFails
<1>6. ASSUME NEW u \in Users, Login(u)
      PROVE  CredentialsBelongTogether'
  <2>0. memory \in Configs
    BY <1>6 DEF Login, TypeOK
  <2>1. PICK c \in Configs : c = LoggedIn(memory, u)
    BY <2>0, LoggedInType
  <2>2. Consistent(c)
    <3>1. Consistent(memory)
      BY <2>0, ConfsAreReal DEF CredentialsBelongTogether
    <3> QED
      BY <2>0, <2>1, <3>1 DEF Consistent, LoggedIn, Configs
  <2>3. Consistent(c)'
    BY <1>0, <2>2, ConsistentStays
  <2> QED
    BY <1>2, <1>6, <2>1, <2>3 DEF Login, Save, SaveFails
<1>7. ASSUME NEW d \in DeviceIds, RegisterDevice(d)
      PROVE  CredentialsBelongTogether'
  <2>0. memory \in Configs /\ UpsertDevice(memory, d)
    BY <1>7 DEF RegisterDevice, TypeOK
  <2>1. PICK c \in Configs : c = Registered(memory, d)
    BY <2>0, RegisteredType
  <2>2. Consistent(c)'
    <3>1. \E r \in rows' : r.server = memory.server /\ r.id = d /\ r.name = NameOf(memory)
      BY <2>0, UpsertFindsRow
    <3>2. Consistent(memory)
      BY <2>0, ConfsAreReal DEF CredentialsBelongTogether
    <3>3. /\ c.server = memory.server /\ c.token = memory.token
          /\ c.device = d /\ c.name = NameOf(memory)
      BY <2>0, <2>1 DEF Registered, Configs
    <3> QED
      BY <3>1, <3>2, <3>3 DEF Consistent
  <2> QED
    BY <1>2, <1>7, <2>1, <2>2 DEF RegisterDevice, Save, SaveFails
<1>8. ASSUME NEW pc \in {"login", "register"}, NEW r \in Roles, CommandStarts(pc, r)
      PROVE  CredentialsBelongTogether'
  <2>1. PICK c \in Configs : c = [Load EXCEPT !.role = r]
    BY <1>8, LoadType DEF CommandStarts, Configs
  <2>2. Consistent(c)
    <3>1. Consistent(Load) /\ Load \in Configs
      BY <1>8, LoadConsistent, LoadType DEF CommandStarts
    <3>2. c.token = Load.token /\ c.device = Load.device /\ c.server = Load.server /\ c.name = Load.name
      BY <2>1, <3>1 DEF Configs
    <3> QED
      BY <3>1, <3>2 DEF Consistent
  <2>3. Consistent(c)'
    BY <1>0, <2>2, ConsistentStays
  <2> QED
    BY <1>3, <1>8, <2>1, <2>3 DEF CommandStarts
<1>9. ASSUME NEW u \in Users, CommandLogin(u)
      PROVE  CredentialsBelongTogether'
  <2>0. command.conf \in Configs
    BY <1>9, CommandConf DEF CommandLogin, NoCommand
  <2>1. PICK c \in Configs : c = LoggedIn(command.conf, u)
    BY <2>0, LoggedInType
  <2>2. Consistent(c)
    <3>1. Consistent(command.conf)
      BY <2>0, ConfsAreReal DEF CredentialsBelongTogether
    <3> QED
      BY <2>0, <2>1, <3>1 DEF Consistent, LoggedIn, Configs
  <2>3. Consistent(c)'
    BY <1>0, <2>2, ConsistentStays
  <2> QED
    BY <1>3, <1>9, <2>1, <2>3 DEF CommandLogin
<1>10. ASSUME NEW d \in DeviceIds, CommandRegister(d)
      PROVE  CredentialsBelongTogether'
  <2>0. command.conf \in Configs /\ UpsertDevice(command.conf, d)
    BY <1>10, CommandConf DEF CommandRegister, NoCommand
  <2>1. PICK c \in Configs : c = Registered(command.conf, d)
    BY <2>0, RegisteredType
  <2>2. Consistent(c)'
    <3>1. \E r \in rows' : /\ r.server = command.conf.server /\ r.id = d
                           /\ r.name = NameOf(command.conf)
      BY <2>0, UpsertFindsRow
    <3>2. Consistent(command.conf)
      BY <2>0, ConfsAreReal DEF CredentialsBelongTogether
    <3>3. /\ c.server = command.conf.server /\ c.token = command.conf.token
          /\ c.device = d /\ c.name = NameOf(command.conf)
      BY <2>0, <2>1 DEF Registered, Configs
    <3> QED
      BY <3>1, <3>2, <3>3 DEF Consistent
  <2> QED
    BY <1>3, <1>10, <2>1, <2>2 DEF CommandRegister
<1>11. CASE CommandSaves
  <2>1. PICK c \in Configs : c = command.conf
    BY <1>11, CommandConf DEF CommandSaves, NoCommand
  <2>2. Consistent(c)'
    BY <1>1, <2>1, ConfsAreReal
  <2>3. memory' = memory /\ file' \in {file, c, Broken} /\ command'.conf = None
    BY <1>11, <2>1 DEF CommandSaves, Save, SaveFails, NoCommand
  <2> QED
    BY <1>1, <2>2, <2>3 DEF CredentialsBelongTogether
<1>12. CASE CommandFails
  BY <1>1, <1>12 DEF CommandFails, NoCommand, CredentialsBelongTogether
<1>13. CASE Stop
  BY <1>1, <1>13 DEF Stop, CredentialsBelongTogether
<1>14. CASE UNCHANGED <<memory, file, command>>
  BY <1>1, <1>14 DEF CredentialsBelongTogether
<1> QED
  BY <1>4, <1>5, <1>6, <1>7, <1>8, <1>9, <1>10, <1>11, <1>12, <1>13, <1>14
  DEF Next, SetUpStarts, SetUpSaves, SetUpFails, CleanUp, vars

\* The token is one of the configured server and the device id one of its rows,
\* whichever of memory, file and command line is looked at, unless an option
\* overrides the server.
THEOREM CredentialsMatch ==
  ASSUME Overrides = {}
  PROVE  Spec => []CredentialsBelongTogether
<1>1. Init => IdentityInv
  BY TypingInit DEF Init, IdentityInv, RowsAreKeyed, CredentialsBelongTogether, NoCommand
<1>2. IdentityInv /\ [Next]_vars => IdentityInv'
  BY TypingStep, RowsStep, CredentialsStep DEF IdentityInv
<1>3. IdentityInv => CredentialsBelongTogether
  BY DEF IdentityInv
<1> QED
  BY <1>1, <1>2, <1>3, PTL DEF Spec

-----------------------------------------------------------------------------
(* Registering again *)

\* The device that a configuration names is the one its user and name select.
LEMMA RegisteredAgain ==
  ASSUME TypeOK, RowsAreKeyed, NEW c \in Configs, Consistent(c), Owned(c), c.name # None,
         NEW d \in DeviceIds, UpsertDevice(c, d)
  PROVE  d = c.device
<1>1. c.device # None
  BY IdentityAssumption DEF Owned, TypeOK, Rows
<1>2. PICK r \in rows : r.server = c.server /\ r.id = c.device /\ r.user = c.token.user
  BY DEF Owned
<1>3. r.name = c.name
  <2>1. PICK q \in rows : q.server = c.server /\ q.id = c.device /\ q.name = c.name
    BY <1>1 DEF Consistent
  <2>2. q = r
    BY <1>2, <2>1 DEF RowsAreKeyed
  <2> QED
    BY <2>1, <2>2
<1>4. r \in RowsOf(c)
  BY <1>2, <1>3 DEF RowsOf, NameOf
<1>5. PICK q \in RowsOf(c) : d = q.id
  BY <1>4 DEF UpsertDevice
<1>6. q = r
  BY <1>4, <1>5 DEF RowsOf, RowsAreKeyed
<1> QED
  BY <1>2, <1>5, <1>6

\* A device keeps its row and id when it registers again.
THEOREM RegistersOnce ==
  ASSUME Overrides = {}
  PROVE  Spec => RegistrationIsRepeatable
<1> DEFINE Same ==
      memory # None /\ memory' # None /\ Owned(memory)
        /\ memory = [memory' EXCEPT !.device = memory.device]
           Repeatable == rows \subseteq rows' /\ (Same => memory' = memory)
<1>1. Init => IdentityInv
  BY TypingInit DEF Init, IdentityInv, RowsAreKeyed, CredentialsBelongTogether, NoCommand
<1>2. IdentityInv /\ [Next]_vars => IdentityInv'
  BY TypingStep, RowsStep, CredentialsStep DEF IdentityInv
<1>3. IdentityInv /\ [Next]_vars => [Repeatable]_vars
  <2> SUFFICES ASSUME IdentityInv, [Next]_vars, Same
               PROVE  memory' = memory
    BY RowsStep DEF IdentityInv
  <2> USE DEF IdentityInv
  <2>1. memory \in Configs /\ memory' \in Configs
    BY TypingStep DEF TypeOK
  <2>2. /\ memory'.role = memory.role /\ memory'.server = memory.server
        /\ memory'.name = memory.name /\ memory'.token = memory.token
    BY <2>1 DEF Configs
  <2>3. SUFFICES memory'.device = memory.device
    BY <2>1, <2>2 DEF Configs
  <2>4. ASSUME NEW r \in Roles, NEW s \in Servers, NEW n \in Names \cup {None}, UpdateSettings(r, s, n)
        PROVE  memory'.device = memory.device
    BY <2>2, <2>4 DEF UpdateSettings, Updated
  <2>5. ASSUME NEW u \in Users, Login(u)
        PROVE  memory'.device = memory.device
    BY <2>1, <2>5 DEF Login, LoggedIn, Configs
  <2>6. ASSUME NEW d \in DeviceIds, RegisterDevice(d)
        PROVE  memory'.device = memory.device
    <3>1. CASE memory' = Registered(memory, d)
      <4>1. memory.name = NameOf(memory) /\ memory'.device = d
        BY <2>1, <2>2, <3>1 DEF Registered, Configs
      <4>2. memory.name # None
        BY <2>1, <4>1, NameType, IdentityAssumption
      <4>3. Consistent(memory)
        BY <2>1, ConfsAreReal DEF CredentialsBelongTogether
      <4> QED
        BY <2>1, <2>6, <4>1, <4>2, <4>3, RegisteredAgain DEF RegisterDevice
    <3>2. CASE UNCHANGED memory
      BY <3>2
    <3> QED
      BY <2>6, <3>1, <3>2 DEF RegisterDevice
  <2>7. CASE UNCHANGED memory
    BY <2>7
  <2> QED
    BY <2>4, <2>5, <2>6, <2>7
    DEF Next, Start, CommandStarts, CommandLogin, CommandRegister, CommandSaves, CommandFails,
        SetUpStarts, SetUpSaves, SetUpFails, CleanUp, Stop, vars
<1> QED
  BY <1>1, <1>2, <1>3, PTL DEF Spec, RegistrationIsRepeatable

=============================================================================
