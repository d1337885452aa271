--------------------------- MODULE ServerFilesProofs ---------------------------
(***************************************************************************)
(* The safety of ServerFiles for any modsets, mods, keys and configurations. *)
(***************************************************************************)
EXTENDS ServerFiles, TLAPS

\* The actions, without the history that follows them.
StartStep ==
  \/ \E m \in Modsets : Build(m)
  \/ CopyTemplate \/ TemplateCopied \/ CopyCommon \/ CommonCopied
  \/ CreateDirectory \/ CreateConfigJson \/ ConfigJsonWritten \/ PrepareModsetConfig
  \/ RemoveOldKeys \/ CopyNewKeys \/ CopyArmaKey \/ Launch \/ Fail

OtherStep ==
  \/ \E t \in Targets : BeginUpload(t) \/ EndUpload(t)
  \/ StopServer \/ Crash

LEMMA Steps == Next => (StartStep \/ OtherStep) /\ HistoryFollows
BY DEF Next, StartStep, OtherStep

(***************************************************************************)
(* Types.                                                                  *)
(***************************************************************************)

\* What is written is a configuration, and neither missing nor unreadable.
LEMMA WrittenFiles ==
  /\ Example \in Written
  /\ \A m \in Modsets : Sample(m) \in Written
  /\ Written \cap NoDocument = {}
  /\ \A part \in SUBSET Settings : [s \in part |-> "example"] \notin NoDocument
<1>1. \A part \in SUBSET Settings :
        [s \in part |-> "example"] \in [part -> {"example"} \cup Modsets]
  OBVIOUS
<1>2. \A part \in SUBSET Settings : [s \in part |-> "example"] \notin NoDocument
  BY <1>1, FilesAssumption
<1>3. Example \notin NoDocument
  BY <1>2 DEF Example
<1>4. ASSUME NEW m \in Modsets PROVE Sample(m) \notin NoDocument
  <2>1. Sample(m) \in [{"hostName"} -> {"example"} \cup Modsets]
    BY DEF Sample
  <2>2. {"hostName"} \in SUBSET Settings
    BY DEF Settings
  <2> QED
    BY <2>1, <2>2, FilesAssumption
<1> QED
  BY <1>2, <1>3, <1>4, FilesAssumption DEF Written

\* No configuration has a line that is spelled "Password".
LEMMA NoPassword ==
  ASSUME TypeOK, NEW m \in Modsets, Readable(m), Readable(Global)
  PROVE  LoadServerPassword(m) = ""
<1>1. "Password" \notin Options
  BY DEF Options, Settings
<1>2. ASSUME NEW d \in Written PROVE "Password" \notin DOMAIN d
  BY <1>1, FilesAssumption DEF Written, Example, Sample, Options, Settings
<1>3. \A t \in {m, Global} : doc[t] # Missing => doc[t] \in Written
  BY DEF TypeOK, Targets, Readable, NoDocument
<1>4. {t \in {m, Global} : doc[t] # Missing /\ "Password" \in DOMAIN doc[t]} = {}
  BY <1>2, <1>3
<1> QED
  BY <1>4 DEF LoadServerPassword

LEMMA NoJobType == NoJob \in JobRecord
BY DEF NoJob, JobRecord

LEMMA GotoType ==
  ASSUME job \in JobRecord,
         NEW pc \in {"idle", "template", "templating", "common", "copying", "modset",
                     "create", "sampling", "layer", "remove", "mods", "arma", "launch"},
         Goto(pc)
  PROVE  job' \in JobRecord
BY DEF Goto, JobRecord

\* A key file that is copied never has the name of another.
LEMMA CopyKeyType ==
  ASSUME TypeOK, NEW k \in KeyFile, CopyKey(k)
  PROVE  keys' \subseteq KeyFile /\ \A i, l \in keys' : i.name = l.name => i = l
BY DEF TypeOK, CopyKey

LEMMA JobTypes ==
  ASSUME FilesInv, StartStep \/ OtherStep
  PROVE  job' \in JobRecord
<1> USE DEF FilesInv, TypeOK
<1>1. ASSUME NEW m \in Modsets, Build(m) PROVE job' \in JobRecord
  <2>1. LoadServerPassword(m) = ""
    BY <1>1, NoPassword DEF Build
  <2>2. job' = [pc |-> "template", modset |-> m, todo |-> {}, password |-> ""]
    BY <1>1, <2>1 DEF Build, NoJob
  <2> QED
    BY ONLY <2>2 DEF JobRecord
<1>2. ASSUME CopyTemplate \/ TemplateCopied \/ CopyCommon \/ CommonCopied
             \/ CreateDirectory \/ CreateConfigJson \/ ConfigJsonWritten
      PROVE  job' \in JobRecord
  BY <1>2, GotoType DEF CopyTemplate, TemplateCopied, CopyCommon, CommonCopied,
     CreateDirectory, CreateConfigJson, ConfigJsonWritten
<1>3. ASSUME PrepareModsetConfig PROVE job' \in JobRecord
  BY <1>3 DEF PrepareModsetConfig, JobRecord
<1>4. ASSUME RemoveOldKeys PROVE job' \in JobRecord
  <2>1. CASE RemoveOldKey
    BY <2>1 DEF RemoveOldKey, JobRecord
  <2>2. CASE job' = [job EXCEPT !.pc = "mods", !.todo = ModsOf[job.modset]]
    <3>1. ModsOf[job.modset] \subseteq Mods
      BY <1>4, FilesAssumption DEF RemoveOldKeys, FilesOfStart, At
    <3> QED
      BY <2>2, <3>1 DEF JobRecord
  <2> QED
    BY <1>4, <2>1, <2>2 DEF RemoveOldKeys
<1>5. ASSUME CopyNewKeys PROVE job' \in JobRecord
  <2>1. CASE \E x \in job.todo : job' = [job EXCEPT !.todo = @ \ {x}]
    BY <2>1 DEF JobRecord
  <2> QED
    BY <1>5, <2>1, GotoType DEF CopyNewKeys
<1>6. ASSUME CopyArmaKey PROVE job' \in JobRecord
  BY <1>6, GotoType DEF CopyArmaKey
<1>7. ASSUME Launch \/ Fail \/ OtherStep PROVE job' \in JobRecord
  BY <1>7, NoJobType DEF Launch, Fail, OtherStep, BeginUpload, EndUpload, StopServer, Crash
<1> QED
  BY <1>1, <1>2, <1>3, <1>4, <1>5, <1>6, <1>7 DEF StartStep

LEMMA FileTypes ==
  ASSUME FilesInv, StartStep \/ OtherStep
  PROVE  /\ template' = Missing \/ DOMAIN template' \subseteq Settings
         /\ doc' \in [Targets -> Written \cup NoDocument]
         /\ DOMAIN cfg' = Modsets
         /\ \A m \in Modsets : cfg'[m] # Missing => DOMAIN cfg'[m] \subseteq Settings
<1> USE DEF FilesInv, TypeOK
<1>1. template' = Missing \/ DOMAIN template' \subseteq Settings
  BY DEF StartStep, OtherStep, Build, CopyTemplate, TemplateCopied, CopyCommon,
     CommonCopied, CreateDirectory, CreateConfigJson, ConfigJsonWritten,
     PrepareModsetConfig, RemoveOldKeys, CopyNewKeys, CopyArmaKey, Launch, Fail,
     BeginUpload, EndUpload, StopServer, Crash, Example
<1>2. doc' \in [Targets -> Written \cup NoDocument]
  <2>1. ASSUME CopyCommon \/ CommonCopied \/ CreateConfigJson \/ ConfigJsonWritten
        PROVE  doc' \in [Targets -> Written \cup NoDocument]
    <3>1. Example \in Written /\ \A m \in Modsets : Sample(m) \in Written
      BY WrittenFiles
    <3>2. job.modset \in Modsets
      BY <2>1 DEF CopyCommon, CommonCopied, CreateConfigJson, ConfigJsonWritten,
                  FilesOfStart, At
    <3> QED
      BY <2>1, <3>1, <3>2 DEF CopyCommon, CommonCopied, CreateConfigJson,
         ConfigJsonWritten, NoDocument
  <2>2. ASSUME NEW t \in Targets, BeginUpload(t) \/ EndUpload(t)
        PROVE  doc' \in [Targets -> Written \cup NoDocument]
    BY <2>2 DEF BeginUpload, EndUpload, Written, NoDocument
  <2> QED
    BY <2>1, <2>2 DEF StartStep, OtherStep, Build, CopyTemplate, TemplateCopied,
     CreateDirectory, PrepareModsetConfig, RemoveOldKeys, CopyNewKeys, CopyArmaKey,
     Launch, Fail, StopServer, Crash
<1>3. /\ DOMAIN cfg' = Modsets
      /\ \A m \in Modsets : cfg'[m] # Missing => DOMAIN cfg'[m] \subseteq Settings
  <2>1. CASE PrepareModsetConfig
    <3>1. template # Missing
      BY <2>1 DEF PrepareModsetConfig, FilesOfStart, At
    <3>2. DOMAIN FillCfg(template, Layered(doc[Global], doc[job.modset]))
            \subseteq Settings
      BY <3>1 DEF FillCfg
    <3> QED
      BY <2>1, <3>2 DEF PrepareModsetConfig
  <2>2. CASE UNCHANGED cfg
    BY <2>2
  <2> QED
    BY <2>1, <2>2 DEF StartStep, OtherStep, Build, CopyTemplate, TemplateCopied, CopyCommon,
     CommonCopied, CreateDirectory, CreateConfigJson, ConfigJsonWritten,
     RemoveOldKeys, CopyNewKeys, CopyArmaKey, Launch, Fail,
     BeginUpload, EndUpload, StopServer, Crash
<1> QED
  BY <1>1, <1>2, <1>3

LEMMA KeyTypes ==
  ASSUME FilesInv, StartStep \/ OtherStep
  PROVE  keys' \subseteq KeyFile /\ \A k, l \in keys' : k.name = l.name => k = l
<1> USE DEF FilesInv
<1>1. CASE RemoveOldKeys
  BY <1>1 DEF RemoveOldKeys, RemoveOldKey, TypeOK
<1>2. CASE CopyNewKeys
  <2>1. ASSUME NEW x \in job.todo, CopyKey([name |-> KeyName[x], of |-> x])
        PROVE  keys' \subseteq KeyFile /\ \A k, l \in keys' : k.name = l.name => k = l
    <3>1. x \in Mods
      BY <1>2, FilesAssumption DEF CopyNewKeys, KeysOfStart, FilesOfStart, At
    <3>2. [name |-> KeyName[x], of |-> x] \in KeyFile
      BY <3>1 DEF KeyFile
    <3> QED
      BY <2>1, <3>2, CopyKeyType
  <2> QED
    BY <1>2, <2>1 DEF CopyNewKeys, TypeOK
<1>3. CASE CopyArmaKey
  <2>1. [name |-> Arma, of |-> Arma] \in KeyFile
    BY DEF KeyFile
  <2> QED
    BY <1>3, <2>1, CopyKeyType DEF CopyArmaKey
<1>4. CASE UNCHANGED keys
  BY <1>4 DEF TypeOK
<1> QED
  BY <1>1, <1>2, <1>3, <1>4 DEF StartStep, OtherStep, Build, CopyTemplate,
     TemplateCopied, CopyCommon, CommonCopied, CreateDirectory, CreateConfigJson,
     ConfigJsonWritten, PrepareModsetConfig, Launch, Fail, BeginUpload, EndUpload,
     StopServer, Crash

LEMMA UploadTypes ==
  ASSUME FilesInv, StartStep \/ OtherStep
  PROVE  /\ dirs' \subseteq Targets /\ uploading' \subseteq dirs' /\ late' \subseteq Targets
         /\ uploaded' \in [Targets -> Documents \cup {Unreadable, None}]
         /\ uploads' \in 0 .. MaxUploads /\ crashes' \in 0 .. MaxCrashes
<1> USE DEF FilesInv, TypeOK
<1>1. CASE CopyTemplate \/ CreateDirectory
  BY <1>1 DEF CopyTemplate, CreateDirectory, FilesOfStart, At, Targets
<1>2. ASSUME NEW t \in Targets, BeginUpload(t) \/ EndUpload(t)
      PROVE  /\ dirs' \subseteq Targets /\ uploading' \subseteq dirs' /\ late' \subseteq Targets
             /\ uploaded' \in [Targets -> Documents \cup {Unreadable, None}]
             /\ uploads' \in 0 .. MaxUploads /\ crashes' \in 0 .. MaxCrashes
  BY <1>2, FilesAssumption DEF BeginUpload, EndUpload
<1>3. CASE Crash
  BY <1>3, FilesAssumption DEF Crash
<1>4. CASE UNCHANGED <<dirs, uploading, late, uploaded, uploads, crashes>>
  BY <1>4
<1> QED
  BY <1>1, <1>2, <1>3, <1>4 DEF StartStep, OtherStep, Build, TemplateCopied, CopyCommon,
     CommonCopied, CreateConfigJson, ConfigJsonWritten, PrepareModsetConfig,
     RemoveOldKeys, CopyNewKeys, CopyArmaKey, Launch, Fail, StopServer

LEMMA TypeStep ==
  ASSUME FilesInv, Next
  PROVE  TypeOK'
<1>1. (StartStep \/ OtherStep) /\ HistoryFollows
  BY Steps
<1>2. doc' \in [Targets -> Written \cup NoDocument]
  BY <1>1, FileTypes
<1>3. since' \in [Targets -> SUBSET Written]
  <2>1. \A t \in Targets : {doc'[t]} \ NoDocument \subseteq Written
    BY <1>2
  <2> QED
    BY <1>1, <2>1 DEF HistoryFollows, FilesInv, TypeOK
<1> QED
  BY <1>1, <1>3, JobTypes, FileTypes, KeyTypes, UploadTypes DEF TypeOK

-----------------------------------------------------------------------------
(***************************************************************************)
(* The files a start finds.                                                *)
(***************************************************************************)

\* No step takes a configuration away.
LEMMA DocsStay ==
  ASSUME FilesInv, StartStep \/ OtherStep, NEW t \in Targets, doc[t] # Missing
  PROVE  doc'[t] # Missing
<1> USE DEF FilesInv, TypeOK
<1>1. Missing \notin Written /\ Example \in Written /\ \A m \in Modsets : Sample(m) \in Written
  BY WrittenFiles DEF NoDocument
<1>2. Missing # Unreadable
  BY FilesAssumption
<1>3. CASE CopyCommon \/ CommonCopied
  BY <1>1, <1>2, <1>3 DEF CopyCommon, CommonCopied
<1>4. CASE CreateConfigJson \/ ConfigJsonWritten
  <2>1. job.modset \in Modsets
    BY <1>4 DEF CreateConfigJson, ConfigJsonWritten, FilesOfStart, At
  <2> QED
    BY <1>1, <1>2, <1>4, <2>1 DEF CreateConfigJson, ConfigJsonWritten
<1>5. ASSUME NEW u \in Targets, BeginUpload(u) \/ EndUpload(u) PROVE doc'[t] # Missing
  BY <1>1, <1>2, <1>5 DEF BeginUpload, EndUpload, Written
<1>6. CASE UNCHANGED doc
  BY <1>6
<1> QED
  BY <1>3, <1>4, <1>5, <1>6 DEF StartStep, OtherStep, Build, CopyTemplate, TemplateCopied,
     CreateDirectory, PrepareModsetConfig, RemoveOldKeys, CopyNewKeys, CopyArmaKey, Launch,
     Fail, StopServer, Crash

LEMMA StartFiles ==
  ASSUME FilesInv, StartStep \/ OtherStep
  PROVE  FilesOfStart'
<1> USE DEF FilesInv, FilesOfStart, At
<1>j. job \in JobRecord
  BY DEF TypeOK
<1>1. ASSUME NEW m \in Modsets, Build(m) PROVE FilesOfStart'
  <2>1. job'.pc = "template" /\ job'.modset = m
    BY <1>1 DEF Build, NoJob
  <2> QED
    BY <1>1, <2>1 DEF Build
<1>2. CASE CopyTemplate
  <2>1. template' # Missing
    <3>1. CASE template = Missing
      BY <1>2, <3>1, WrittenFiles DEF CopyTemplate, NoDocument
    <3> QED
      BY <1>2, <3>1 DEF CopyTemplate
  <2>2. job'.pc \in {"templating", "common"} /\ job'.modset = job.modset
    BY <1>2, <1>j DEF CopyTemplate, Goto, JobRecord
  <2> QED
    BY <1>2, <2>1, <2>2 DEF CopyTemplate
<1>3. CASE TemplateCopied
  <2>1. template' # Missing
    <3>1. Settings \in SUBSET Settings
      OBVIOUS
    <3> QED
      BY <1>3, <3>1, WrittenFiles DEF TemplateCopied, Example, NoDocument
  <2>2. job'.pc = "common" /\ job'.modset = job.modset
    BY <1>3, <1>j DEF TemplateCopied, Goto, JobRecord
  <2> QED
    BY <1>3, <2>1, <2>2 DEF TemplateCopied
<1>4. CASE CopyCommon \/ CommonCopied
  <2>1. doc'[Global] # Missing
    <3>1. Missing \notin Written /\ Example \in Written
      BY WrittenFiles DEF NoDocument
    <3> QED
      BY <1>4, <3>1, FilesAssumption DEF CopyCommon, CommonCopied, TypeOK, Targets
  <2>2. job'.pc \in {"copying", "modset"} /\ job'.modset = job.modset
    BY <1>4, <1>j DEF CopyCommon, CommonCopied, Goto, JobRecord
  <2> QED
    BY <1>4, <2>1, <2>2 DEF CopyCommon, CommonCopied
<1>5. CASE CreateDirectory
  <2>1. /\ job'.modset = job.modset /\ job'.pc \in {"create", "layer"}
        /\ job'.pc = "layer" => doc[job.modset] # Missing
    BY <1>5, <1>j DEF CreateDirectory, Goto, JobRecord, ConfigMissing
  <2> QED
    BY <1>5, <2>1 DEF CreateDirectory
<1>6. CASE CreateConfigJson \/ ConfigJsonWritten
  <2>1. job'.pc \in {"sampling", "layer"} /\ job'.modset = job.modset
    BY <1>6, <1>j DEF CreateConfigJson, ConfigJsonWritten, Goto, JobRecord
  <2>2. job.modset \in Targets /\ Global \in Targets /\ doc[Global] # Missing
    BY <1>6 DEF CreateConfigJson, ConfigJsonWritten, Targets
  <2>3. doc'[Global] # Missing
    BY <2>2, DocsStay
  <2>4. doc'[job.modset] # Missing
    <3>1. Missing \notin Written /\ \A m \in Modsets : Sample(m) \in Written
      BY WrittenFiles DEF NoDocument
    <3>2. job.modset \in Modsets
      BY <1>6 DEF CreateConfigJson, ConfigJsonWritten
    <3> QED
      BY <1>6, <2>2, <3>1, <3>2, FilesAssumption
         DEF CreateConfigJson, ConfigJsonWritten, TypeOK
  <2> QED
    BY <1>6, <2>1, <2>2, <2>3, <2>4 DEF CreateConfigJson, ConfigJsonWritten
<1>7. CASE PrepareModsetConfig \/ RemoveOldKeys \/ CopyNewKeys \/ CopyArmaKey
  <2>1. /\ job.pc \in {"layer", "remove", "mods", "arma"}
        /\ job'.pc \in {"remove", "mods", "arma", "launch"} /\ job'.modset = job.modset
    BY <1>7, <1>j DEF PrepareModsetConfig, RemoveOldKeys, RemoveOldKey, CopyNewKeys,
       CopyArmaKey, Goto, JobRecord
  <2>2. UNCHANGED <<doc, template, server>>
    BY <1>7 DEF PrepareModsetConfig, RemoveOldKeys, CopyNewKeys, CopyArmaKey
  <2> QED
    BY <2>1, <2>2
<1>8. CASE Launch \/ Fail \/ Crash
  BY <1>8 DEF Launch, Fail, Crash, NoJob
<1>9. CASE OtherStep /\ ~Crash
  <2>1. /\ UNCHANGED <<job, template>>
        /\ server # server' => server' = NoServer
    BY <1>9 DEF OtherStep, BeginUpload, EndUpload, StopServer
  <2>2. \A t \in Targets : doc[t] # Missing => doc'[t] # Missing
    BY <1>9, DocsStay
  <2>3. Global \in Targets /\ Modsets \subseteq Targets
    BY DEF Targets
  <2> QED
    BY <2>1, <2>2, <2>3
<1> QED
  BY <1>1, <1>2, <1>3, <1>4, <1>5, <1>6, <1>7, <1>8, <1>9 DEF StartStep

LEMMA TemplateStep ==
  ASSUME FilesInv, StartStep \/ OtherStep
  PROVE  TemplateKept'
<1> USE DEF FilesInv, TemplateKept, At
<1>j. job \in JobRecord /\ crashes \in Nat
  BY FilesAssumption DEF TypeOK
<1>1. CASE CopyTemplate
  <2>1. server = NoServer /\ server' = NoServer
    BY <1>1 DEF CopyTemplate, FilesOfStart, At
  <2>2. template' = template \/ job'.pc = "templating"
    BY <1>1, <1>j DEF CopyTemplate, Goto, JobRecord
  <2> QED
    BY <1>1, <2>1, <2>2 DEF CopyTemplate
<1>2. CASE TemplateCopied
  BY <1>2 DEF TemplateCopied, FilesOfStart, At
<1>3. CASE Launch
  <2>1. template # Missing /\ job.pc # "templating"
    BY <1>3 DEF Launch, FilesOfStart, At
  <2>2. PICK global \in since[Global], modset \in since[job.modset] :
          cfg[job.modset] = FillCfg(template, Layered(global, modset))
    BY <1>3 DEF Launch, ConfigLayered, At
  <2>3. server'.settings = cfg[job.modset] /\ UNCHANGED <<template, crashes>>
    BY <1>3 DEF Launch
  <2>4. DOMAIN server'.settings = DOMAIN template
    BY <2>2, <2>3 DEF FillCfg
  <2> QED
    BY <2>1, <2>3, <2>4
<1>4. CASE Crash
  BY <1>4, <1>j DEF Crash
<1>5. CASE StopServer
  BY <1>5 DEF StopServer
<1>6. ASSUME UNCHANGED <<template, server, crashes>>, job.pc # "templating"
      PROVE  TemplateKept'
  BY <1>6
<1>7. ASSUME UNCHANGED <<template, server, crashes, job>>
      PROVE  TemplateKept'
  BY <1>7
<1>8. CASE \E t \in Targets : BeginUpload(t) \/ EndUpload(t)
  BY <1>7, <1>8 DEF BeginUpload, EndUpload
<1>9. CASE StartStep /\ ~CopyTemplate /\ ~TemplateCopied /\ ~Launch
  <2>1. job.pc # "templating" /\ UNCHANGED <<template, server, crashes>>
    BY <1>9 DEF StartStep, Build, CopyCommon, CommonCopied, CreateDirectory,
       CreateConfigJson, ConfigJsonWritten, PrepareModsetConfig, RemoveOldKeys,
       CopyNewKeys, CopyArmaKey, Fail, At
  <2> QED
    BY <1>6, <2>1
<1> QED
  BY <1>1, <1>2, <1>3, <1>4, <1>5, <1>8, <1>9 DEF OtherStep

-----------------------------------------------------------------------------
(***************************************************************************)
(* The server.cfg a start writes.                                          *)
(***************************************************************************)

\* What a target has had during a start is not forgotten while the start goes on,
\* and what it has at the end of a step belongs to it.
LEMMA SinceGrows ==
  ASSUME FilesInv, HistoryFollows, job.pc # "idle", job'.pc # "idle", NEW t \in Targets
  PROVE  since[t] \subseteq since'[t] /\ {doc'[t]} \ NoDocument \subseteq since'[t]
BY DEF HistoryFollows, At

LEMMA LayerStep ==
  ASSUME FilesInv, StartStep \/ OtherStep, HistoryFollows
  PROVE  ConfigLayered'
<1> DEFINE Written2 == {"remove", "mods", "arma", "launch"}
<1> SUFFICES ASSUME job'.pc \in Written2
             PROVE  \E global \in since'[Global], modset \in since'[job'.modset] :
                      cfg'[job'.modset] = FillCfg(template', Layered(global, modset))
  BY DEF ConfigLayered
<1>j. job \in JobRecord /\ Global \in Targets /\ Modsets \subseteq Targets
  BY DEF FilesInv, TypeOK, Targets
<1>1. CASE PrepareModsetConfig
  <2>1. job.pc = "layer" /\ job'.modset = job.modset /\ job.modset \in Modsets
    BY <1>1, <1>j DEF PrepareModsetConfig, JobRecord, FilesInv, FilesOfStart, At
  <2>2. /\ doc[Global] \notin NoDocument /\ doc[job.modset] \notin NoDocument
        /\ doc' = doc /\ template' = template
    BY <1>1, <2>1 DEF PrepareModsetConfig, Readable, NoDocument, FilesInv, FilesOfStart, At
  <2>3. doc[Global] \in since'[Global] /\ doc[job.modset] \in since'[job.modset]
    BY <2>1, <2>2, <1>j, SinceGrows
  <2>4. cfg'[job.modset] = FillCfg(template, Layered(doc[Global], doc[job.modset]))
    BY <1>1, <2>1 DEF PrepareModsetConfig, FilesInv, TypeOK
  <2> QED
    BY <2>1, <2>2, <2>3, <2>4
<1>2. ASSUME job.pc \in Written2, job'.modset = job.modset, UNCHANGED <<cfg, template>>
      PROVE  \E global \in since'[Global], modset \in since'[job'.modset] :
               cfg'[job'.modset] = FillCfg(template', Layered(global, modset))
  <2>1. job.modset \in Modsets
    BY <1>2 DEF FilesInv, FilesOfStart, At
  <2>2. since[Global] \subseteq since'[Global] /\ since[job.modset] \subseteq since'[job.modset]
    BY <1>2, <1>j, <2>1, SinceGrows
  <2>3. PICK global \in since[Global], modset \in since[job.modset] :
          cfg[job.modset] = FillCfg(template, Layered(global, modset))
    BY <1>2 DEF FilesInv, ConfigLayered
  <2>4. global \in since'[Global] /\ modset \in since'[job'.modset]
    BY <1>2, <2>2, <2>3
  <2>5. cfg'[job'.modset] = FillCfg(template', Layered(global, modset))
    BY <1>2, <2>3
  <2> QED
    BY <2>4, <2>5
<1>3. CASE RemoveOldKeys \/ CopyNewKeys \/ CopyArmaKey
  <2>1. job.pc \in Written2 /\ job'.modset = job.modset /\ UNCHANGED <<cfg, template>>
    BY <1>3, <1>j DEF RemoveOldKeys, RemoveOldKey, CopyNewKeys, CopyArmaKey, Goto, At,
       JobRecord
  <2> QED
    BY <1>2, <2>1
<1>4. CASE OtherStep /\ ~Crash
  <2>1. UNCHANGED <<job, cfg, template>>
    BY <1>4 DEF OtherStep, BeginUpload, EndUpload, StopServer
  <2> QED
    BY <1>2, <2>1
<1>5. CASE Launch \/ Fail \/ Crash
  BY <1>5 DEF Launch, Fail, Crash, NoJob
<1>6. CASE \E m \in Modsets : Build(m)
  BY <1>6 DEF Build, NoJob
<1>7. CASE CopyTemplate \/ TemplateCopied \/ CopyCommon \/ CommonCopied
           \/ CreateDirectory \/ CreateConfigJson \/ ConfigJsonWritten
  BY <1>7, <1>j DEF CopyTemplate, TemplateCopied, CopyCommon, CommonCopied,
     CreateDirectory, CreateConfigJson, ConfigJsonWritten, Goto, JobRecord
<1> QED
  BY <1>1, <1>3, <1>4, <1>5, <1>6, <1>7 DEF StartStep

-----------------------------------------------------------------------------
(***************************************************************************)
(* The keys a start leaves.                                                *)
(***************************************************************************)

KeyNames(files) == {k.name : k \in files}

Owners(files) == {k.of : k \in files}

\* After a key is copied its name is there, and at most its owner came in addition.
LEMMA CopiedKey ==
  ASSUME NEW k, CopyKey(k)
  PROVE  /\ KeyNames(keys') = KeyNames(keys) \cup {k.name}
         /\ Owners(keys') \subseteq Owners(keys) \cup {k.of}
<1>1. CASE k.name \in {l.name : l \in keys}
  BY <1>1 DEF CopyKey, KeyNames, Owners
<1>2. CASE k.name \notin {l.name : l \in keys}
  BY <1>2 DEF CopyKey, KeyNames, Owners
<1> QED
  BY <1>1, <1>2

LEMMA CopyModKey ==
  ASSUME FilesInv, CopyNewKeys
  PROVE  KeysOfStart'
<1> DEFINE signed == Signed(job.modset)
<1>1. /\ job \in JobRecord /\ job.pc = "mods" /\ job.modset \in Modsets
      /\ job.todo \subseteq ModsOf[job.modset]
      /\ Owners(keys) \subseteq signed
      /\ KeyNames(keys) = {KeyName[x] : x \in signed \ job.todo}
  BY DEF FilesInv, TypeOK, CopyNewKeys, At, FilesOfStart, KeysOfStart, KeyNames, Owners
<1>2. ASSUME NEW x \in job.todo, job' = [job EXCEPT !.todo = @ \ {x}],
             IF KeyName[x] = None THEN UNCHANGED keys
                                  ELSE CopyKey([name |-> KeyName[x], of |-> x])
      PROVE  KeysOfStart'
  <2>1. job'.pc = "mods" /\ job'.modset = job.modset /\ job'.todo = job.todo \ {x}
    BY <1>1, <1>2 DEF JobRecord
  <2>2. /\ Owners(keys') \subseteq signed
        /\ KeyNames(keys') = {KeyName[y] : y \in signed \ job'.todo}
    <3>1. CASE KeyName[x] = None
      <4>1. signed \ job'.todo = signed \ job.todo
        BY <2>1, <3>1 DEF Signed
      <4> QED
        BY <1>1, <1>2, <3>1, <4>1
    <3>2. CASE KeyName[x] # None
      <4>1. x \in signed /\ signed \ job'.todo = (signed \ job.todo) \cup {x}
        BY <1>1, <2>1, <3>2 DEF Signed
      <4>2. /\ KeyNames(keys') = KeyNames(keys) \cup {KeyName[x]}
            /\ Owners(keys') \subseteq Owners(keys) \cup {x}
        BY <1>2, <3>2, CopiedKey
      <4> HIDE DEF signed
      <4> QED
        BY <1>1, <4>1, <4>2
    <3> QED
      BY <3>1, <3>2
  <2> QED
    BY <1>1, <2>1, <2>2 DEF KeysOfStart, At, KeyNames, Owners
<1>3. ASSUME job.todo = {}, UNCHANGED keys, Goto("arma")
      PROVE  KeysOfStart'
  <2>1. job'.pc = "arma" /\ job'.modset = job.modset
    BY <1>1, <1>3 DEF JobRecord, Goto
  <2>2. signed \ job.todo = signed
    BY <1>3
  <2> QED
    BY <1>1, <1>3, <2>1, <2>2 DEF KeysOfStart, At, KeyNames, Owners
<1> QED
  BY <1>2, <1>3 DEF CopyNewKeys

LEMMA KeysStep ==
  ASSUME FilesInv, StartStep \/ OtherStep
  PROVE  KeysOfStart'
<1>j. job \in JobRecord
  BY DEF FilesInv, TypeOK
<1>1. ASSUME RemoveOldKeys PROVE KeysOfStart'
  <2>1. job.pc = "remove" /\ keys \subseteq job.todo
    BY <1>1 DEF RemoveOldKeys, At, FilesInv, KeysOfStart
  <2>2. CASE RemoveOldKey
    <3>1. job'.pc = "remove" /\ keys' \subseteq job'.todo
      BY <2>1, <2>2, <1>j DEF RemoveOldKey, JobRecord
    <3> QED
      BY <3>1 DEF KeysOfStart, At
  <2>3. ASSUME job.todo = {}, UNCHANGED keys,
               job' = [job EXCEPT !.pc = "mods", !.todo = ModsOf[job.modset]]
        PROVE  KeysOfStart'
    <3>1. job'.pc = "mods" /\ job'.modset = job.modset /\ job'.todo = ModsOf[job.modset]
      BY <2>3, <1>j DEF JobRecord
    <3>2. keys' = {}
      BY <2>1, <2>3
    <3>3. Signed(job'.modset) \ job'.todo = {}
      BY <3>1 DEF Signed
    <3> QED
      BY <3>1, <3>2, <3>3 DEF KeysOfStart, At
  <2> QED
    BY <1>1, <2>2, <2>3 DEF RemoveOldKeys
<1>2. ASSUME CopyArmaKey PROVE KeysOfStart'
  <2>1. /\ job.pc = "arma" /\ Owners(keys) \subseteq Signed(job.modset)
        /\ KeyNames(keys) = {KeyName[x] : x \in Signed(job.modset)}
    BY <1>2 DEF CopyArmaKey, At, FilesInv, KeysOfStart, KeyNames, Owners
  <2>2. job'.pc = "launch" /\ job'.modset = job.modset
    BY <1>2, <1>j DEF CopyArmaKey, Goto, JobRecord
  <2>3. /\ KeyNames(keys') = KeyNames(keys) \cup {Arma}
        /\ Owners(keys') \subseteq Owners(keys) \cup {Arma}
    BY <1>2, CopiedKey DEF CopyArmaKey
  <2> QED
    BY <2>1, <2>2, <2>3 DEF KeysOfStart, At, KeyNames, Owners
<1>3. ASSUME PrepareModsetConfig PROVE KeysOfStart'
  <2>1. job'.pc = "remove" /\ job'.todo = keys /\ keys' = keys
    BY <1>3, <1>j DEF PrepareModsetConfig, JobRecord
  <2> QED
    BY <2>1 DEF KeysOfStart, At
<1>4. CASE Launch \/ Fail \/ Crash
  BY <1>4 DEF Launch, Fail, Crash, NoJob, KeysOfStart, At
<1>5. CASE \E m \in Modsets : Build(m)
  BY <1>5 DEF Build, NoJob, KeysOfStart, At
<1>6. CASE CopyTemplate \/ TemplateCopied \/ CopyCommon \/ CommonCopied
           \/ CreateDirectory \/ CreateConfigJson \/ ConfigJsonWritten
  <2>1. job'.pc \in {"templating", "common", "copying", "modset", "create", "sampling",
                     "layer"}
    BY <1>6, <1>j DEF CopyTemplate, TemplateCopied, CopyCommon, CommonCopied,
       CreateDirectory, CreateConfigJson, ConfigJsonWritten, Goto, JobRecord
  <2> QED
    BY <2>1 DEF KeysOfStart, At
<1>7. ASSUME UNCHANGED <<job, keys>> PROVE KeysOfStart'
  BY <1>7 DEF FilesInv, KeysOfStart, At
<1>8. CASE OtherStep /\ ~Crash
  BY <1>7, <1>8 DEF OtherStep, BeginUpload, EndUpload, StopServer
<1> QED
  BY <1>1, <1>2, <1>3, <1>4, <1>5, <1>6, <1>8, CopyModKey DEF StartStep

LEMMA AcceptStep ==
  ASSUME FilesInv, StartStep \/ OtherStep
  PROVE  AcceptsItsMods'
<1>1. CASE Launch
  <2>1. server' = [modset |-> job.modset, settings |-> cfg[job.modset], keys |-> keys,
                   password |-> job.password]
    BY <1>1 DEF Launch
  <2>2. /\ {k.of : k \in keys} \subseteq Signed(job.modset) \cup {Arma}
        /\ {k.name : k \in keys} = {KeyName[x] : x \in Signed(job.modset)} \cup {Arma}
    BY <1>1 DEF Launch, FilesInv, KeysOfStart, At
  <2>3. server'.modset = job.modset /\ server'.keys = keys
    BY <2>1
  <2> QED
    BY <2>2, <2>3 DEF AcceptsItsMods, Signed
<1>2. CASE StopServer
  BY <1>2 DEF StopServer, AcceptsItsMods
<1>3. CASE UNCHANGED server
  BY <1>3 DEF AcceptsItsMods, FilesInv
<1> QED
  BY <1>1, <1>2, <1>3 DEF StartStep, OtherStep, Build, CopyTemplate, TemplateCopied,
     CopyCommon, CommonCopied, CreateDirectory, CreateConfigJson, ConfigJsonWritten,
     PrepareModsetConfig, RemoveOldKeys, CopyNewKeys, CopyArmaKey, Fail, BeginUpload,
     EndUpload, Crash

-----------------------------------------------------------------------------
(***************************************************************************)
(* Uploads, and what a start writes over them.                             *)
(***************************************************************************)

\* Where a file is missing no upload is lost by writing it.
LEMMA NothingUploaded ==
  ASSUME FilesInv, NEW t \in Targets, doc[t] = Missing
  PROVE  /\ uploaded[t] = None \/ t \in late
         /\ t \notin uploading
         /\ t = Global => uploaded[t] = None
<1>1. Missing \notin Documents \cup {Unreadable}
  BY FilesAssumption DEF NoDocument
<1>2. uploaded[t] # None => doc[t] = uploaded[t] \/ t \in late
  BY DEF FilesInv, UploadsStay
<1>3. uploaded[t] # None => uploaded[t] \in Documents \cup {Unreadable}
  BY DEF FilesInv, TypeOK
<1>4. t = Global => t \notin late
  BY FilesAssumption DEF FilesInv, WritersAreAlone
<1>5. t \in uploading => doc[t] = Unreadable
  BY DEF FilesInv, WritersAreAlone
<1> QED
  BY <1>1, <1>2, <1>3, <1>4, <1>5

\* The steps that write a file, a request's and a start's.
LEMMA UploadStep ==
  ASSUME FilesInv, StartStep \/ OtherStep
  PROVE  UploadsStay'
<1> SUFFICES ASSUME NEW u \in Targets, uploaded'[u] # None
             PROVE  doc'[u] = uploaded'[u] \/ u \in late'
  BY DEF UploadsStay
<1>t. /\ DOMAIN doc = Targets /\ DOMAIN uploaded = Targets
      /\ Global \in Targets /\ Modsets \subseteq Targets
  BY DEF FilesInv, TypeOK, Targets
<1>0. uploaded[u] # None => doc[u] = uploaded[u] \/ u \in late
  BY DEF FilesInv, UploadsStay
<1>1. CASE CopyCommon
  <2>1. doc[Global] = Missing => uploaded[Global] = None
    BY <1>t, NothingUploaded
  <2> QED
    BY <1>0, <1>1, <2>1 DEF CopyCommon, FilesInv, TypeOK
<1>2. CASE CommonCopied
  <2>1. uploaded[Global] = None
    BY <1>2 DEF CommonCopied, FilesInv, WritersAreAlone
  <2> QED
    BY <1>0, <1>2, <2>1 DEF CommonCopied, FilesInv, TypeOK
<1>3. CASE CreateConfigJson \/ ConfigJsonWritten
  <2>1. uploaded[job.modset] = None \/ job.modset \in late
    BY <1>3 DEF CreateConfigJson, ConfigJsonWritten, FilesInv, WritersAreAlone, At
  <2> QED
    BY <1>0, <1>3, <2>1 DEF CreateConfigJson, ConfigJsonWritten, FilesInv, TypeOK
<1>4. ASSUME NEW t \in Targets, BeginUpload(t) PROVE doc'[u] = uploaded'[u] \/ u \in late'
  BY <1>0, <1>4 DEF BeginUpload, FilesInv, TypeOK
<1>5. ASSUME NEW t \in Targets, EndUpload(t) PROVE doc'[u] = uploaded'[u] \/ u \in late'
  BY <1>0, <1>5, <1>t DEF EndUpload
<1>6. CASE UNCHANGED <<doc, uploaded, late>>
  BY <1>0, <1>6
<1> QED
  BY <1>1, <1>2, <1>3, <1>4, <1>5, <1>6 DEF StartStep, OtherStep, Build, CopyTemplate,
     TemplateCopied, CreateDirectory, PrepareModsetConfig, RemoveOldKeys, CopyNewKeys,
     CopyArmaKey, Launch, Fail, StopServer, Crash

LEMMA WritersStep ==
  ASSUME FilesInv, StartStep \/ OtherStep
  PROVE  WritersAreAlone'
<1>t. /\ job \in JobRecord
      /\ doc \in [Targets -> Written \cup NoDocument]
      /\ uploaded \in [Targets -> Documents \cup {Unreadable, None}]
      /\ uploading \subseteq Targets
      /\ Global \in Targets /\ Modsets \subseteq Targets /\ Global \notin Modsets
  BY FilesAssumption DEF FilesInv, TypeOK, Targets
<1>w. /\ late \subseteq Modsets
      /\ \A t \in uploading : doc[t] = Unreadable /\ uploaded[t] = None
      /\ job.pc = "copying" => Global \notin uploading /\ uploaded[Global] = None
      /\ job.pc = "sampling" => job.modset \notin uploading
      /\ job.pc \in {"create", "sampling"} =>
           uploaded[job.modset] = None \/ job.modset \in late
  BY DEF FilesInv, WritersAreAlone, At
<1>1. CASE CopyCommon
  <2>1. doc[Global] = Missing => uploaded[Global] = None /\ Global \notin uploading
    BY <1>t, NothingUploaded
  <2>2. \/ /\ doc[Global] = Missing /\ doc' = [doc EXCEPT ![Global] = Unreadable]
           /\ job'.pc = "copying"
        \/ UNCHANGED doc /\ job'.pc = "modset"
    BY <1>1, <1>t DEF CopyCommon, Goto, JobRecord
  <2> QED
    BY <1>1, <1>t, <1>w, <2>1, <2>2 DEF CopyCommon, WritersAreAlone, At
<1>2. CASE CommonCopied
  <2>1. job'.pc = "modset" /\ Global \notin uploading
    BY <1>2, <1>t, <1>w DEF CommonCopied, Goto, JobRecord, At
  <2> QED
    BY <1>2, <1>t, <1>w, <2>1 DEF CommonCopied, WritersAreAlone, At
<1>3. CASE CreateDirectory
  <2>1. /\ job'.pc \in {"create", "layer"} /\ job'.modset = job.modset
        /\ job'.pc = "create" => doc[job.modset] = Missing
    BY <1>3, <1>t DEF CreateDirectory, Goto, JobRecord, ConfigMissing
  <2>2. job.modset \in Targets
    BY <1>3, <1>t DEF CreateDirectory, FilesInv, FilesOfStart, At
  <2>3. job'.pc = "create" => uploaded[job.modset] = None \/ job.modset \in late
    BY <2>1, <2>2, NothingUploaded
  <2> QED
    BY <1>3, <1>t, <1>w, <2>1, <2>3 DEF CreateDirectory, WritersAreAlone, At
<1>4. CASE CreateConfigJson
  <2>1. job'.pc = "sampling" /\ job'.modset = job.modset /\ job.modset \notin uploading
    BY <1>4, <1>t DEF CreateConfigJson, Goto, JobRecord, Shut
  <2>2. uploaded[job.modset] = None \/ job.modset \in late
    BY <1>4, <1>w DEF CreateConfigJson, At
  <2> QED
    BY <1>4, <1>t, <1>w, <2>1, <2>2 DEF CreateConfigJson, WritersAreAlone, At
<1>5. CASE ConfigJsonWritten
  <2>1. job'.pc = "layer" /\ job.modset \notin uploading
    BY <1>5, <1>t, <1>w DEF ConfigJsonWritten, Goto, JobRecord, At
  <2> QED
    BY <1>5, <1>t, <1>w, <2>1 DEF ConfigJsonWritten, WritersAreAlone, At
<1>6. ASSUME NEW t \in Targets, BeginUpload(t) PROVE WritersAreAlone'
  <2>1. /\ job.pc = "copying" => t # Global
        /\ job.pc = "sampling" => t # job.modset
    BY <1>6 DEF BeginUpload, Shut, At
  <2>2. \A u \in uploading' : doc'[u] = Unreadable /\ uploaded'[u] = None
    BY <1>6, <1>t, <1>w DEF BeginUpload
  <2>3. job.pc \in {"create", "sampling"} =>
          uploaded'[job.modset] = None \/ job.modset \in late'
    BY <1>6, <1>t, <1>w DEF BeginUpload
  <2>4. job.pc = "copying" => uploaded'[Global] = None
    BY <1>6, <1>t, <1>w DEF BeginUpload
  <2> QED
    BY <1>6, <1>w, <2>1, <2>2, <2>3, <2>4 DEF BeginUpload, WritersAreAlone, At
<1>7. ASSUME NEW t \in Targets, EndUpload(t) PROVE WritersAreAlone'
  <2>1. job.pc = "create" => job.modset \in Modsets
    BY DEF FilesInv, FilesOfStart, At
  <2>2. \A u \in uploading' : doc'[u] = Unreadable /\ uploaded'[u] = None
    BY <1>7, <1>t, <1>w DEF EndUpload
  <2>3. job.pc \in {"create", "sampling"} =>
          uploaded'[job.modset] = None \/ job.modset \in late'
    BY <1>7, <1>t, <1>w DEF EndUpload, At
  <2>4. job.pc = "copying" => uploaded'[Global] = None
    BY <1>7, <1>t, <1>w DEF EndUpload
  <2>5. late' \subseteq Modsets /\ uploading' \subseteq uploading /\ UNCHANGED job
    BY <1>7, <1>w, <2>1 DEF EndUpload, At
  <2> QED
    BY <1>w, <2>2, <2>3, <2>4, <2>5 DEF WritersAreAlone, At
<1>8. CASE Crash \/ Launch \/ Fail
  <2>1. job'.pc = "idle" /\ UNCHANGED <<doc, uploaded, late>> /\ uploading' \subseteq uploading
    BY <1>8 DEF Crash, Launch, Fail, NoJob
  <2> QED
    BY <1>w, <2>1 DEF WritersAreAlone, At
<1>9. CASE \/ \E m \in Modsets : Build(m)
           \/ CopyTemplate \/ TemplateCopied \/ PrepareModsetConfig \/ RemoveOldKeys
           \/ CopyNewKeys \/ CopyArmaKey
  <2>1. UNCHANGED <<doc, uploaded, late, uploading>>
    BY <1>9 DEF Build, CopyTemplate, TemplateCopied, PrepareModsetConfig, RemoveOldKeys,
       CopyNewKeys, CopyArmaKey
  <2>2. job'.pc \notin {"copying", "create", "sampling"}
    <3>1. ASSUME NEW m \in Modsets, Build(m) PROVE job'.pc = "template"
      BY <3>1 DEF Build, NoJob
    <3>2. CASE CopyTemplate \/ TemplateCopied \/ PrepareModsetConfig \/ RemoveOldKeys
               \/ CopyNewKeys \/ CopyArmaKey
      BY <3>2, <1>t DEF CopyTemplate, TemplateCopied, PrepareModsetConfig, RemoveOldKeys,
         RemoveOldKey, CopyNewKeys, CopyArmaKey, Goto, JobRecord, At
    <3> QED
      BY <1>9, <3>1, <3>2
  <2> QED
    BY <1>w, <2>1, <2>2 DEF WritersAreAlone, At
<1>10. CASE StopServer
  BY <1>10, <1>w DEF StopServer, WritersAreAlone, At
<1> QED
  BY <1>1, <1>2, <1>3, <1>4, <1>5, <1>6, <1>7, <1>8, <1>9, <1>10 DEF StartStep, OtherStep

-----------------------------------------------------------------------------
(***************************************************************************)
(* The theorems.                                                           *)
(***************************************************************************)

LEMMA FilesInit == Init => FilesInv
<1> SUFFICES ASSUME Init PROVE FilesInv
  OBVIOUS
<1>1. job.pc = "idle" /\ job \in JobRecord
  BY NoJobType DEF Init, NoJob
<1>2. TypeOK
  <2>1. uploads \in 0 .. MaxUploads /\ crashes \in 0 .. MaxCrashes
    BY FilesAssumption DEF Init
  <2>2. doc \in [Targets -> Written \cup NoDocument]
    BY DEF Init, NoDocument
  <2>3. DOMAIN cfg = Modsets /\ \A m \in Modsets : cfg[m] = Missing
    BY DEF Init
  <2> QED
    BY <1>1, <2>1, <2>2, <2>3 DEF Init, TypeOK
<1>3. FilesOfStart /\ TemplateKept /\ ConfigLayered /\ KeysOfStart
  BY <1>1 DEF Init, FilesOfStart, TemplateKept, ConfigLayered, KeysOfStart, At
<1>4. WritersAreAlone /\ UploadsStay /\ AcceptsItsMods
  BY <1>1 DEF Init, WritersAreAlone, UploadsStay, AcceptsItsMods, At
<1> QED
  BY <1>2, <1>3, <1>4 DEF FilesInv

LEMMA FilesStep == FilesInv /\ [Next]_vars => FilesInv'
<1> SUFFICES ASSUME FilesInv, [Next]_vars PROVE FilesInv'
  OBVIOUS
<1>1. CASE Next
  <2>1. (StartStep \/ OtherStep) /\ HistoryFollows
    BY <1>1, Steps
  <2> QED
    BY <1>1, <2>1, TypeStep, StartFiles, TemplateStep, LayerStep, KeysStep, AcceptStep,
       UploadStep, WritersStep DEF FilesInv
<1>2. CASE UNCHANGED vars
  <2> USE <1>2 DEF vars, FilesInv
  <2>1. TypeOK'
    BY DEF TypeOK
  <2>2. FilesOfStart' /\ TemplateKept' /\ ConfigLayered'
    BY DEF FilesOfStart, TemplateKept, ConfigLayered, At
  <2>3. KeysOfStart' /\ AcceptsItsMods'
    BY DEF KeysOfStart, AcceptsItsMods, At
  <2>4. WritersAreAlone' /\ UploadsStay'
    BY DEF WritersAreAlone, UploadsStay, At
  <2> QED
    BY <2>1, <2>2, <2>3, <2>4
<1> QED
  BY <1>1, <1>2

\* However starts, uploads, stops and crashes of the manager interleave, the files are
\* those that the point a start has reached accounts for.
THEOREM FilesInvariant == Spec => []FilesInv
BY FilesInit, FilesStep, PTL DEF Spec

\* The files have the shapes the code gives them, and no two key files one name.
THEOREM FilesTypeCorrect == Spec => []TypeOK
<1>1. FilesInv => TypeOK
  BY DEF FilesInv
<1> QED
  BY <1>1, FilesInvariant, PTL

\* A server runs with the keys of its modset (KeysHelper): a key of each mod that has
\* one, or a namesake of it, that of Arma, and none of another modset.
THEOREM ServersAcceptTheirMods == Spec => []AcceptsItsMods
<1>1. FilesInv => AcceptsItsMods
  BY DEF FilesInv
<1> QED
  BY <1>1, FilesInvariant, PTL

\* An upload is lost only to a later one, or to the sample that CreateText writes over
\* a file which came after File.Exists was asked (ServerConfig).
THEOREM UploadsAlwaysStay == Spec => []UploadsStay
<1>1. FilesInv => UploadsStay
  BY DEF FilesInv
<1> QED
  BY <1>1, FilesInvariant, PTL

\* No server runs with a line of the example missing, unless the manager once stopped
\* while it copied it.
THEOREM LinesCutOnlyByCrash == Spec => []CutOnlyByCrash
<1>1. FilesInv => CutOnlyByCrash
  <2> SUFFICES ASSUME FilesInv, server # NoServer, DOMAIN server.settings # Settings
               PROVE  crashes > 0 /\ template # Example
    BY DEF CutOnlyByCrash
  <2>1. template # Missing /\ DOMAIN server.settings = DOMAIN template
    BY DEF FilesInv, TemplateKept
  <2>2. template # Example
    BY <2>1 DEF Example
  <2>3. ~At("templating")
    BY DEF FilesInv, FilesOfStart, At
  <2> QED
    BY <2>1, <2>2, <2>3 DEF FilesInv, TemplateKept
<1> QED
  BY <1>1, FilesInvariant, PTL

\* The server.cfg a server is launched with lays a config.json its modset had during
\* this start over a common.json of this start, and fills the lines of the template
\* with them, whatever was uploaded, interrupted or failed meanwhile.
THEOREM ServersLaunchedAsConfigured == Spec => LaunchedAsConfigured
<1>1. ASSUME FilesInv, Next, server = NoServer, server' # NoServer
      PROVE  \E global \in since[Global], modset \in since[server'.modset] :
               server'.settings =
                 [s \in DOMAIN template |->
                    IF s \in DOMAIN modset THEN modset[s]
                    ELSE IF s \in DOMAIN global THEN global[s] ELSE template[s]]
  <2>1. Launch
    BY <1>1 DEF Next, Build, CopyTemplate, TemplateCopied, CopyCommon, CommonCopied,
       CreateDirectory, CreateConfigJson, ConfigJsonWritten, PrepareModsetConfig,
       RemoveOldKeys, CopyNewKeys, CopyArmaKey, Fail, BeginUpload, EndUpload, StopServer,
       Crash
  <2>2. server'.modset = job.modset /\ server'.settings = cfg[job.modset]
    BY <2>1 DEF Launch
  <2>3. PICK global \in since[Global], modset \in since[job.modset] :
          cfg[job.modset] = FillCfg(template, Layered(global, modset))
    BY <1>1, <2>1 DEF Launch, FilesInv, ConfigLayered, At
  <2>4. FillCfg(template, Layered(global, modset)) =
          [s \in DOMAIN template |->
             IF s \in DOMAIN modset THEN modset[s]
             ELSE IF s \in DOMAIN global THEN global[s] ELSE template[s]]
    BY DEF FillCfg, Layered
  <2> QED
    BY <2>2, <2>3, <2>4
<1>2. FilesInv /\ [Next]_vars =>
        (server = NoServer /\ server' # NoServer =>
           \E global \in since[Global], modset \in since[server'.modset] :
             server'.settings =
               [s \in DOMAIN template |->
                  IF s \in DOMAIN modset THEN modset[s]
                  ELSE IF s \in DOMAIN global THEN global[s] ELSE template[s]])
  BY <1>1 DEF vars
<1> QED
  BY <1>2, FilesInvariant, PTL DEF Spec, LaunchedAsConfigured
=============================================================================
