------------------------------ MODULE ServerFiles ------------------------------
(***************************************************************************)
(* The files a server is started from.  DedicatedServer.Start lays the     *)
(* configuration of the modset over that of the server, writes server.cfg, *)
(* and replaces the contents of the Keys directory, one file at a time.    *)
(* There is one worker, so starts follow one another; configurations are   *)
(* uploaded by requests meanwhile, and the manager may stop in between.    *)
(***************************************************************************)
EXTENDS Naturals

CONSTANTS
  Modsets, Mods,
  ModsOf,      \* the client loadable mods of each modset
  KeyName,     \* the name of each mod's key file, None if it has none
  Documents,   \* the configurations that are uploaded
  MaxUploads,  \* bound: uploads
  MaxCrashes,  \* bound: crashes of the manager
  Global, Arma, Missing, Unreadable, None

Targets == Modsets \cup {Global}

\* The lines of the example of server.cfg, and the settings documents may have: the
\* names are spelled as there.
Settings == {"hostName", "password"}

Options == Settings \cup {"other"}

\* A configuration file is read, is not there, or cannot be read: it is empty, or it
\* is JSON of another shape.
NoDocument == {Missing, Unreadable}

ASSUME FilesAssumption ==
  /\ Global \notin Modsets /\ Arma \notin Mods
  /\ ModsOf \in [Modsets -> SUBSET Mods]
  /\ \A d \in Documents : DOMAIN d \subseteq Options
  /\ NoDocument \cap Documents = {} /\ Missing # Unreadable
  /\ \A lines \in SUBSET Settings :
       NoDocument \cap [lines -> {"example"} \cup Modsets] = {}
  /\ MaxUploads \in Nat /\ MaxCrashes \in Nat

VARIABLES
  template,   \* server.cfg of the server: the lines it has
  doc,        \* common.json, and config.json of each modset
  dirs,       \* the configuration directories that exist
  cfg,        \* server.cfg of each modset
  keys,       \* the Keys directory
  job,        \* the start in progress
  server,     \* the server that runs, with what it has read
  uploading,  \* the configurations requests are writing
  uploads, crashes,
  uploaded,   \* history: the last upload to each target
  late,       \* history: the targets whose upload ended between the test whether the
              \* file exists and its creation
  since       \* history: the configurations each target has had during the start

vars == <<template, doc, dirs, cfg, keys, job, server, uploading, uploads, crashes,
          uploaded, late, since>>

-----------------------------------------------------------------------------

\* What the example files contain, common.json and server.cfg alike.
Example == [s \in Settings |-> "example"]

\* The config.json made for a modset without one.
Sample(m) == [s \in {"hostName"} |-> m]

NoJob == [pc |-> "idle", modset |-> None, todo |-> {}, password |-> None]

NoServer == [modset |-> None, settings |-> Example, keys |-> {}, password |-> None]

KeyFile == [name : {KeyName[x] : x \in Mods} \cup {Arma}, of : Mods \cup {Arma}]

JobRecord == [pc : {"idle", "template", "templating", "common", "copying", "modset",
                    "create", "sampling", "layer", "remove", "mods", "arma", "launch"},
              modset : Modsets \cup {None},
              todo : SUBSET (KeyFile \cup Mods),
              password : {"", None}]   \* no file has one, see LoadServerPassword

At(pc) == job.pc = pc

Goto(pc) == job' = [job EXCEPT !.pc = pc]

\* A file that somebody writes is not shared.
Shut(t) == \/ t \in uploading
           \/ At("copying") /\ t = Global
           \/ At("sampling") /\ t = job.modset

Readable(t) == ~Shut(t) /\ doc[t] # Unreadable

\* AddJsonStream of both files, the modset's last: its settings win.
Layered(global, modset) ==
  [s \in DOMAIN global \cup DOMAIN modset |->
     IF s \in DOMAIN modset THEN modset[s] ELSE global[s]]

\* Mutant of FillCfg: lines that are not configured are dropped.
KeepConfigured(lines, config) ==
  [s \in DOMAIN lines \cap DOMAIN config |-> config[s]]

\* FillCfg: the lines of the template, and only those, get the values configured.
FillCfg(lines, config) ==
  [s \in DOMAIN lines |-> IF s \in DOMAIN config THEN config[s] ELSE lines[s]]

\* The classes it deserialises into have the properties Server and Password, and
\* JsonSerializer minds the case: files that say "server" and "password" as the
\* examples do have none.
LoadServerPassword(m) ==
  LET named == {t \in {m, Global} : doc[t] # Missing /\ "Password" \in DOMAIN doc[t]}
  IN IF m \in named THEN doc[m]["Password"]
     ELSE IF Global \in named THEN doc[Global]["Password"] ELSE ""

-----------------------------------------------------------------------------
(***************************************************************************)
(* The start of a server, after the one that ran was shut down.            *)
(***************************************************************************)

\* The server object is built: ModsetConfig reads the password the headless clients
\* will send, and throws if it cannot read a file.
Build(m) ==
  /\ At("idle") /\ server = NoServer
  /\ Readable(m) /\ Readable(Global)
  /\ job' = [NoJob EXCEPT !.pc = "template", !.modset = m,
                          !.password = LoadServerPassword(m)]
  /\ UNCHANGED <<template, doc, dirs, cfg, keys, server, uploading, uploads, crashes,
                 uploaded, late>>

\* GetOrCreateServerConfigDir: a file that is there is not looked into.
CopyTemplate ==
  /\ At("template")
  /\ dirs' = dirs \cup {Global}
  /\ IF template = Missing
       THEN /\ \E part \in SUBSET Settings : template' = [s \in part |-> "example"]
            /\ Goto("templating")
       ELSE Goto("common") /\ UNCHANGED template
  /\ UNCHANGED <<doc, cfg, keys, server, uploading, uploads, crashes, uploaded, late>>

TemplateCopied ==
  /\ At("templating")
  /\ template' = Example
  /\ Goto("common")
  /\ UNCHANGED <<doc, dirs, cfg, keys, server, uploading, uploads, crashes, uploaded,
                 late>>

CopyCommon ==
  /\ At("common")
  /\ IF doc[Global] = Missing
       THEN doc' = [doc EXCEPT ![Global] = Unreadable] /\ Goto("copying")
       ELSE Goto("modset") /\ UNCHANGED doc
  /\ UNCHANGED <<template, dirs, cfg, keys, server, uploading, uploads, crashes,
                 uploaded, late>>

CommonCopied ==
  /\ At("copying")
  /\ doc' = [doc EXCEPT ![Global] = Example]
  /\ Goto("modset")
  /\ UNCHANGED <<template, dirs, cfg, keys, server, uploading, uploads, crashes,
                 uploaded, late>>

\* Mutant of ConfigMissing: config.json is always written.
ConfigUnwanted(m) == TRUE

ConfigMissing(m) == doc[m] = Missing

\* GetOrCreateModsetConfigDir: whether config.json exists is tested here ...
CreateDirectory ==
  /\ At("modset")
  /\ dirs' = dirs \cup {job.modset}
  /\ Goto(IF ConfigMissing(job.modset) THEN "create" ELSE "layer")
  /\ UNCHANGED <<template, doc, cfg, keys, server, uploading, uploads, crashes,
                 uploaded, late>>

\* ... and here CreateText empties whatever is there by now.
CreateConfigJson ==
  /\ At("create") /\ ~Shut(job.modset)
  /\ doc' = [doc EXCEPT ![job.modset] = Unreadable]
  /\ Goto("sampling")
  /\ UNCHANGED <<template, dirs, cfg, keys, server, uploading, uploads, crashes,
                 uploaded, late>>

ConfigJsonWritten ==
  /\ At("sampling")
  /\ doc' = [doc EXCEPT ![job.modset] = Sample(job.modset)]
  /\ Goto("layer")
  /\ UNCHANGED <<template, dirs, cfg, keys, server, uploading, uploads, crashes,
                 uploaded, late>>

\* Mutant of PrepareModsetConfig: server.cfg is filled in place.
PrepareOverOld ==
  /\ At("layer")
  /\ Readable(Global) /\ Readable(job.modset)
  /\ cfg' = [cfg EXCEPT ![job.modset] =
               FillCfg(IF @ = Missing THEN template ELSE @,
                       Layered(doc[Global], doc[job.modset]))]
  /\ job' = [job EXCEPT !.pc = "remove", !.todo = keys]
  /\ UNCHANGED <<template, doc, dirs, keys, server, uploading, uploads, crashes,
                 uploaded, late>>

\* The password read anew does not reach the clients, whose command lines are built.
PrepareModsetConfig ==
  /\ At("layer")
  /\ Readable(Global) /\ Readable(job.modset)
  /\ cfg' = [cfg EXCEPT ![job.modset] =
               FillCfg(template, Layered(doc[Global], doc[job.modset]))]
  /\ job' = [job EXCEPT !.pc = "remove", !.todo = keys]
  /\ UNCHANGED <<template, doc, dirs, keys, server, uploading, uploads, crashes,
                 uploaded, late>>

\* Mutant of RemoveOldKey: only a key of the new modset makes room.
RemoveOwnKey ==
  \E k \in job.todo : /\ job' = [job EXCEPT !.todo = @ \ {k}]
                      /\ keys' = IF k.of \in ModsOf[job.modset] THEN keys \ {k} ELSE keys

RemoveOldKey ==
  \E k \in job.todo : /\ job' = [job EXCEPT !.todo = @ \ {k}]
                      /\ keys' = keys \ {k}

\* Mutant of CopyKey: a file of the same name is not looked for.
CopyAnyway(k) == keys' = keys \cup {k}

\* A file of the same name stays.
CopyKey(k) == keys' = IF k.name \in {l.name : l \in keys} THEN keys ELSE keys \cup {k}

\* RemoveOldKeys.
RemoveOldKeys ==
  /\ At("remove")
  /\ \/ RemoveOldKey
     \/ /\ job.todo = {} /\ UNCHANGED keys
        /\ job' = [job EXCEPT !.pc = "mods", !.todo = ModsOf[job.modset]]
  /\ UNCHANGED <<template, doc, dirs, cfg, server, uploading, uploads, crashes,
                 uploaded, late>>

\* CopyNewKeys: a mod without keys is only logged.
CopyNewKeys ==
  /\ At("mods")
  /\ \/ \E x \in job.todo :
          /\ job' = [job EXCEPT !.todo = @ \ {x}]
          /\ IF KeyName[x] = None THEN UNCHANGED keys
                                  ELSE CopyKey([name |-> KeyName[x], of |-> x])
     \/ job.todo = {} /\ UNCHANGED keys /\ Goto("arma")
  /\ UNCHANGED <<template, doc, dirs, cfg, server, uploading, uploads, crashes,
                 uploaded, late>>

CopyArmaKey ==
  /\ At("arma")
  /\ CopyKey([name |-> Arma, of |-> Arma])
  /\ Goto("launch")
  /\ UNCHANGED <<template, doc, dirs, cfg, server, uploading, uploads, crashes,
                 uploaded, late>>

\* The server reads its server.cfg and the keys; its clients are given the password.
Launch ==
  /\ At("launch")
  /\ server' = [modset |-> job.modset, settings |-> cfg[job.modset], keys |-> keys,
                password |-> job.password]
  /\ job' = NoJob
  /\ UNCHANGED <<template, doc, dirs, cfg, keys, uploading, uploads, crashes, uploaded,
                 late>>

\* A file cannot be opened, copied, deleted or parsed, the key of Arma is not there,
\* the process cannot be started: the start ends and nothing is undone.
Fail ==
  /\ job.pc \notin {"idle", "templating", "copying", "sampling"}
  /\ job' = NoJob
  /\ UNCHANGED <<template, doc, dirs, cfg, keys, server, uploading, uploads, crashes,
                 uploaded, late>>

-----------------------------------------------------------------------------

\* UploadConfigurationFile: the directory must exist, the file is emptied ...
BeginUpload(t) ==
  /\ uploads < MaxUploads
  /\ t \in dirs /\ ~Shut(t)
  /\ doc' = [doc EXCEPT ![t] = Unreadable]
  /\ uploading' = uploading \cup {t}
  /\ uploads' = uploads + 1
  /\ uploaded' = [uploaded EXCEPT ![t] = None]
  /\ late' = late \ {t}
  /\ UNCHANGED <<template, dirs, cfg, keys, job, server, crashes>>

\* ... and written.  It was only tested to be JSON.
EndUpload(t) ==
  /\ t \in uploading
  /\ \E d \in Documents \cup {Unreadable} :
       doc' = [doc EXCEPT ![t] = d] /\ uploaded' = [uploaded EXCEPT ![t] = d]
  /\ uploading' = uploading \ {t}
  /\ late' = IF At("create") /\ t = job.modset THEN late \cup {t} ELSE late
  /\ UNCHANGED <<template, dirs, cfg, keys, job, server, uploads, crashes>>

StopServer ==
  /\ server # NoServer
  /\ server' = NoServer
  /\ UNCHANGED <<template, doc, dirs, cfg, keys, job, uploading, uploads, crashes,
                 uploaded, late>>

\* The manager stops; the server runs on.
Crash ==
  /\ crashes < MaxCrashes
  /\ crashes' = crashes + 1
  /\ job' = NoJob
  /\ uploading' = {}
  /\ UNCHANGED <<template, doc, dirs, cfg, keys, server, uploads, uploaded, late>>

-----------------------------------------------------------------------------

Init ==
  /\ template = Missing
  /\ doc = [t \in Targets |-> Missing]
  /\ cfg = [m \in Modsets |-> Missing]
  /\ dirs = {} /\ keys = {} /\ uploading = {} /\ late = {}
  /\ job = NoJob /\ server = NoServer
  /\ uploads = 0 /\ crashes = 0
  /\ uploaded = [t \in Targets |-> None]
  /\ since = [t \in Targets |-> {}]

HistoryFollows ==
  since' = [t \in Targets |->
    IF job'.pc = "idle" THEN {}
    ELSE (IF At("idle") THEN {} ELSE since[t]) \cup ({doc'[t]} \ NoDocument)]

Next ==
  /\ \/ \E m \in Modsets : Build(m)
     \/ CopyTemplate \/ TemplateCopied \/ CopyCommon \/ CommonCopied
     \/ CreateDirectory \/ CreateConfigJson \/ ConfigJsonWritten \/ PrepareModsetConfig
     \/ RemoveOldKeys \/ CopyNewKeys \/ CopyArmaKey \/ Launch \/ Fail
     \/ \E t \in Targets : BeginUpload(t) \/ EndUpload(t)
     \/ StopServer \/ Crash
  /\ HistoryFollows

Spec == Init /\ [][Next]_vars

-----------------------------------------------------------------------------
(***************************************************************************)
(* Properties.                                                             *)
(***************************************************************************)

Written == Documents \cup {Example} \cup {Sample(m) : m \in Modsets}

\* Every variable has the shape the code gives it, and no two files of the Keys
\* directory have the same name.
TypeOK ==
  /\ template = Missing \/ DOMAIN template \subseteq Settings
  /\ doc \in [Targets -> Written \cup NoDocument]
  /\ DOMAIN cfg = Modsets
  /\ \A m \in Modsets : cfg[m] # Missing => DOMAIN cfg[m] \subseteq Settings
  /\ uploaded \in [Targets -> Documents \cup {Unreadable, None}]
  /\ since \in [Targets -> SUBSET Written]
  /\ dirs \subseteq Targets /\ uploading \subseteq dirs /\ late \subseteq Targets
  /\ keys \subseteq KeyFile /\ job \in JobRecord
  /\ \A k, l \in keys : k.name = l.name => k = l
  /\ uploads \in 0 .. MaxUploads /\ crashes \in 0 .. MaxCrashes

\* A server is launched with a server.cfg that lays a configuration its modset had
\* during the start over one the server had: never with a setting of another modset
\* or of an earlier start, whatever failed, crashed or was uploaded before.
LaunchedAsConfigured ==
  [][server = NoServer /\ server' # NoServer =>
       \E global \in since[Global], modset \in since[server'.modset] :
         server'.settings =
           [s \in DOMAIN template |->
              IF s \in DOMAIN modset THEN modset[s]
              ELSE IF s \in DOMAIN global THEN global[s] ELSE template[s]]]_vars

\* The keys in place when a server is launched are those of its modset: every mod
\* with a key is accepted, or a namesake of it is, and no key of another modset is
\* left, whatever was interrupted before.
AcceptsItsMods ==
  server # NoServer =>
    LET signed == {x \in ModsOf[server.modset] : KeyName[x] # None}
    IN /\ {k.of : k \in server.keys} \subseteq signed \cup {Arma}
       /\ {k.name : k \in server.keys} = {KeyName[x] : x \in signed} \cup {Arma}

\* A line of server.cfg is missing from a running server only if the manager was
\* stopped while it copied the example: every start after that uses the part copied.
CutOnlyByCrash ==
  server # NoServer /\ DOMAIN server.settings # Settings
    => crashes > 0 /\ template # Example

\* A configuration that was uploaded stays until the next upload, except for one that
\* arrives just before the sample is written.
UploadsStay ==
  \A t \in Targets : uploaded[t] # None => doc[t] = uploaded[t] \/ t \in late

\* How far a start is says which files there are; no server runs meanwhile.
FilesOfStart ==
  ~At("idle") =>
    /\ job.modset \in Modsets /\ server = NoServer
    /\ ~At("template") => template # Missing
    /\ job.pc \notin {"template", "templating", "common"} => doc[Global] # Missing
    /\ job.pc \notin {"template", "templating", "common", "copying", "modset", "create"}
         => doc[job.modset] # Missing

\* server.cfg of the server is cut only by a crash, and a running server has its lines.
TemplateKept ==
  /\ template \in {Missing, Example} \/ At("templating") \/ crashes > 0
  /\ server # NoServer =>
       template # Missing /\ DOMAIN server.settings = DOMAIN template

\* What a start has laid over what, once it has written server.cfg of its modset.
ConfigLayered ==
  job.pc \in {"remove", "mods", "arma", "launch"} =>
    \E global \in since[Global], modset \in since[job.modset] :
      cfg[job.modset] = FillCfg(template, Layered(global, modset))

Signed(m) == {x \in ModsOf[m] : KeyName[x] # None}

\* The Keys directory during a start: old keys only while they are on the list, then
\* those of the mods that are not on it any more.
KeysOfStart ==
  LET names == {k.name : k \in keys}
      owners == {k.of : k \in keys}
      signed == Signed(job.modset)
  IN /\ At("remove") => keys \subseteq job.todo
     /\ At("mods") => job.todo \subseteq ModsOf[job.modset]
     /\ job.pc \in {"mods", "arma"} =>
          /\ owners \subseteq signed
          /\ names = {KeyName[x] : x \in IF At("mods") THEN signed \ job.todo ELSE signed}
     /\ At("launch") =>
          /\ owners \subseteq signed \cup {Arma}
          /\ names = {KeyName[x] : x \in signed} \cup {Arma}

\* A file that a request or a start is writing holds no upload that could be lost,
\* except one that came just before the sample.
WritersAreAlone ==
  /\ late \subseteq Modsets
  /\ \A t \in uploading : doc[t] = Unreadable /\ uploaded[t] = None
  /\ At("copying") => Global \notin uploading /\ uploaded[Global] = None
  /\ At("sampling") => job.modset \notin uploading
  /\ job.pc \in {"create", "sampling"} =>
       uploaded[job.modset] = None \/ job.modset \in late

\* The inductive invariant behind the properties above.
FilesInv ==
  /\ TypeOK /\ FilesOfStart /\ TemplateKept /\ ConfigLayered /\ KeysOfStart
  /\ WritersAreAlone /\ UploadsStay /\ AcceptsItsMods

\* The headless clients of a server send the password that lets them in.
ClientsMayEnter ==
  server # NoServer /\ "password" \in DOMAIN server.settings
    => server.password = server.settings["password"]
=============================================================================
