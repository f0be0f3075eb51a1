--------------------------- MODULE SystemProofs ----------------------------
(***************************************************************************)
(* What the components of System promise, each for every value of its      *)
(* constants: the program's start, the timer and the worker, the stages'   *)
(* transactions and the handles of the cursors.  ContainersProofs has the  *)
(* containers.                                                             *)
(***************************************************************************)
EXTENDS Startup, Concurrency, Database, FiniteSetTheorems, TLAPS

-----------------------------------------------------------------------------
(* Startup.  The inductive invariant says what every step of the program's *)
(* start has established by the time the next one is reached.  Nothing of  *)
(* it holds of the disk alone: what a killed process left behind is looked *)
(* at again.                                                               *)

\* The steps of the program from one point on.
FromHub == {"hub", "running", "stopping"}
FromParams == {"params", "download"} \cup FromHub
FromTime == {"time", "tls", "ask_tls", "remove_certificate", "remove_key", "store_certificate", "store_key"} \cup FromParams
FromConfig == {"config"} \cup FromTime
FromSchema == {"schema"} \cup FromConfig

Points == {"absent", "down", "open"} \cup FromSchema

StartupTypes ==
    /\ pc \in Points
    /\ chaindata \in [page : PageSizes \cup {0}, schema : {-1, 0, 1}, config : Networks \cup {0}]
    /\ settings.page \in PageSizes /\ settings.network \in Networks \cup {Unknown}
    /\ pairs \in Nat

\* What open_env, prepare_chaindata_env and the comparison of the chains have established.
DatabaseReady ==
    /\ pc \in FromSchema => chaindata.page = settings.page
    /\ pc \in FromConfig => chaindata.schema = kRequiredSchemaVersion
    /\ pc \in FromTime => chaindata.config = settings.network

\* A certificate that was just stored is that of the last pair; behind validate_tls_requirements the key is too.
TlsReady ==
    /\ pc = "store_key" => certificate = pairs /\ pairs > 0
    /\ pc \in FromParams /\ settings.use_tls => validate_server_certificate

\* What is found in a parameter file's place.
Contents == {"missing", "foreign", "short", "corrupt", "good"}

\* A file that passes the first look, and the files that were seen and are not to be downloaded.
Passes(f) == params[f] = "good" \/ (settings.no_checksums /\ params[f] = "corrupt")

ParamsReady ==
    /\ params \in [Files -> Contents]
    /\ pc = "params" =>
           /\ errored \in Seq(Files) /\ index \in 1..Len(kParamFiles) + 1
           /\ \A i \in 1..index - 1 : Passes(kParamFiles[i]) \/ \E j \in 1..Len(errored) : errored[j] = kParamFiles[i]
    /\ pc = "download" =>
           /\ errored \in Seq(Files) /\ index \in 1..Len(errored)
           /\ \A f \in Files : Passes(f) \/ \E j \in index..Len(errored) : errored[j] = f
    /\ pc \in FromHub => \A f \in Files : Passes(f)

\* The other points are passed with the locals of the parameter check untouched.
Untouched == pc \notin {"params", "download"} => index = 1 /\ errored = <<>>

StartupInv == StartupTypes /\ DatabaseReady /\ TlsReady /\ ParamsReady /\ Untouched

-----------------------------------------------------------------------------
(* Initial states, and the steps that end the process.                     *)

USE DEF Points, FromSchema, FromConfig, FromTime, FromParams, FromHub

\* A data directory that is empty, or left by an older program, is no point of the start that has been passed.
LEMMA InitIInv == InitStartup => StartupInv
BY StartupAssumption DEF Contents, InitStartup, StartupInv, StartupTypes, DatabaseReady, TlsReady, ParamsReady, Untouched, NoFile,
   NoSettings

\* A process that ended has nothing to keep but the shape of its disk.
LEMMA ExitIInv ==
    ASSUME StartupInv, Exit,
           chaindata' = chaindata, params' \in [Files -> Contents], pairs' \in Nat
    PROVE  StartupInv'
BY DEF Exit, StartupInv, StartupTypes, DatabaseReady, TlsReady, ParamsReady, Untouched

-----------------------------------------------------------------------------
(* One lemma per part of the start.                                        *)

\* Whatever the options are, the process begins at the database.
LEMMA LaunchIInv == StartupInv /\ Launch => StartupInv'
<1> SUFFICES ASSUME StartupInv,
                    NEW network \in Networks \cup {Unknown}, NEW page \in PageSizes, NEW tls \in BOOLEAN, NEW unchecked \in BOOLEAN,
                    parse_node_command_line(network, page, tls, unchecked)
             PROVE  StartupInv'
    BY DEF Launch
<1> QED
    BY DEF parse_node_command_line, disk, StartupInv, StartupTypes, DatabaseReady, TlsReady, ParamsReady, Untouched

\* The steps on the chaindata database: each one establishes one more of its three values.
LEMMA DatabaseIInv ==
    ASSUME StartupInv, open_env \/ DeployTables \/ CheckSchema \/ WriteChainConfig \/ CheckChain \/ CheckTime
    PROVE  StartupInv'
<1> USE DEF kept, disk
<1>0. StartupTypes /\ params \in [Files -> Contents]
    BY DEF StartupInv, ParamsReady
<1>1. CASE open_env
  <2>1. CASE chaindata.page \in {0, settings.page}
    BY <1>1, <2>1 DEF open_env, GoTo, StartupInv, StartupTypes, DatabaseReady, TlsReady, ParamsReady, Untouched
  <2>2. CASE chaindata.page \notin {0, settings.page}
    BY <1>0, <1>1, <2>2, ExitIInv DEF open_env, StartupTypes
  <2> QED BY <2>1, <2>2
<1>2. CASE DeployTables
    BY <1>2 DEF DeployTables, deployed, is_pristine, kRequiredSchemaVersion, GoTo, StartupInv, StartupTypes, DatabaseReady,
       TlsReady, ParamsReady, Untouched
<1>3. CASE CheckSchema
  <2>1. CASE chaindata.schema >= kRequiredSchemaVersion
    BY <1>3, <2>1 DEF CheckSchema, kRequiredSchemaVersion, GoTo, StartupInv, StartupTypes, DatabaseReady, TlsReady, ParamsReady,
       Untouched
  <2>2. CASE ~(chaindata.schema >= kRequiredSchemaVersion)
    BY <1>0, <1>3, <2>2, ExitIInv DEF CheckSchema, StartupTypes
  <2> QED BY <2>1, <2>2
<1>4. CASE WriteChainConfig
  <2>1. CASE settings.network \in Networks
    BY <1>4, <2>1 DEF WriteChainConfig, GoTo, StartupInv, StartupTypes, DatabaseReady, TlsReady, ParamsReady, Untouched
  <2>2. CASE settings.network \notin Networks
    BY <1>0, <1>4, <2>2, ExitIInv DEF WriteChainConfig, StartupTypes
  <2> QED BY <2>1, <2>2
<1>5. CASE CheckChain
  <2>1. CASE same_chain
    BY <1>5, <2>1 DEF CheckChain, same_chain, GoTo, StartupInv, StartupTypes, DatabaseReady, TlsReady, ParamsReady, Untouched
  <2>2. CASE ~same_chain
    BY <1>0, <1>5, <2>2, ExitIInv DEF CheckChain, StartupTypes
  <2> QED BY <2>1, <2>2
<1>6. CASE CheckTime
  <2>1. CASE Exit
    BY <1>0, <1>6, <2>1, ExitIInv DEF CheckTime, StartupTypes
  <2>2. CASE GoTo(IF settings.use_tls THEN "tls" ELSE "params") /\ UNCHANGED <<index, errored, faults>>
    <3>1. pc = "time" /\ UNCHANGED <<chaindata, params, settings, pairs, index, errored, certificate, key>>
        BY <1>6, <2>2 DEF CheckTime, GoTo
    <3>2. pc' = IF settings.use_tls THEN "tls" ELSE "params"
        BY <2>2 DEF GoTo
    <3>3. index = 1 /\ errored = <<>>
        BY <3>1 DEF StartupInv, Untouched
    <3>4. (StartupTypes /\ DatabaseReady /\ TlsReady /\ Untouched)'
        BY <3>1, <3>2, <3>3 DEF StartupInv, StartupTypes, DatabaseReady, TlsReady, Untouched, validate_server_certificate
    <3>5. ParamsReady'
        BY <3>1, <3>2, <3>3, StartupAssumption DEF StartupInv, ParamsReady, Files
    <3> QED BY <3>4, <3>5 DEF StartupInv
  <2> QED BY <1>6, <2>1, <2>2 DEF CheckTime
<1> QED BY <1>1, <1>2, <1>3, <1>4, <1>5, <1>6

\* The steps on the certificate and the key: the way to the parameter files
\* is a pair that was validated, or the two files of the last pair generated.
LEMMA TlsIInv ==
    ASSUME StartupInv, ValidateTls \/ AskTls \/ RemoveCertificate \/ RemoveKey \/ store_x509_certificate \/ store_rsa_key_pair
    PROVE  StartupInv'
<1> USE DEF disk
<1>0. pairs \in Nat /\ params \in [Files -> Contents]
    BY DEF StartupInv, StartupTypes, ParamsReady
<1>1. CASE Exit
  <2>1. chaindata' = chaindata /\ params' = params /\ pairs' \in Nat
    BY <1>0 DEF ValidateTls, AskTls, RemoveCertificate, RemoveKey, store_x509_certificate, store_rsa_key_pair
  <2> QED BY <1>0, <1>1, <2>1, ExitIInv
<1>2. CASE ~Exit
  <2>1. /\ UNCHANGED <<chaindata, params, settings, index, errored>> /\ pairs' \in Nat
        /\ pc \in FromTime \ FromParams /\ pc' \in (FromTime \ FromParams) \cup {"params"}
    BY <1>0, <1>2 DEF ValidateTls, AskTls, RemoveCertificate, RemoveKey, store_x509_certificate, store_rsa_key_pair,
       GoTo
  <2>2. index = 1 /\ errored = <<>>
    BY <2>1 DEF StartupInv, Untouched
  <2>3. (StartupTypes /\ DatabaseReady /\ Untouched)'
    BY <2>1, <2>2 DEF StartupInv, StartupTypes, DatabaseReady, Untouched
  <2>4. ParamsReady'
    BY <1>0, <2>1, <2>2, StartupAssumption DEF ParamsReady, Files
  <2>5. TlsReady'
    <3>1. CASE pc' = "store_key"
        BY <1>0, <1>2, <3>1 DEF ValidateTls, AskTls, RemoveCertificate, RemoveKey, store_x509_certificate,
           store_rsa_key_pair, GoTo, TlsReady
    <3>2. CASE pc' = "params"
        BY <1>0, <1>2, <3>2 DEF ValidateTls, AskTls, RemoveCertificate, RemoveKey, store_x509_certificate,
           store_rsa_key_pair, GoTo, StartupInv, TlsReady, validate_server_certificate, Missing, Broken
    <3>3. CASE pc' \notin {"store_key", "params"}
        BY <2>1, <3>3 DEF TlsReady
    <3> QED BY <3>1, <3>2, <3>3
  <2> QED BY <2>3, <2>4, <2>5 DEF StartupInv
<1> QED BY <1>1, <1>2

\* The first look: a file that does not pass is among those to download.
LEMMA CheckParamIInv == ASSUME StartupInv, CheckParam PROVE StartupInv'
<1>0. /\ params \in [Files -> Contents] /\ pairs' \in Nat /\ chaindata' = chaindata
      /\ errored \in Seq(Files) /\ index \in 1..Len(kParamFiles) /\ pc = "params"
      /\ \A i \in 1..index - 1 : Passes(kParamFiles[i]) \/ \E j \in 1..Len(errored) : errored[j] = kParamFiles[i]
      /\ kParamFiles \in Seq(Files) /\ file \in Files
    BY StartupAssumption DEF StartupInv, StartupTypes, ParamsReady, CheckParam, file, Files
<1>1. CASE Exit
  <2>1. params' \in [Files -> Contents]
    BY <1>0, <1>1 DEF CheckParam, Contents
  <2> QED BY <1>0, <1>1, <2>1, ExitIInv
<1>2. CASE ~Exit
  <2>1. /\ params' = (IF accepted THEN params ELSE [params EXCEPT ![file] = "missing"])
        /\ errored' = (IF accepted THEN errored ELSE Append(errored, file))
        /\ index' = index + 1 /\ pc' = "params"
        /\ UNCHANGED <<chaindata, certificate, key, settings, pairs>>
    BY <1>2 DEF CheckParam, GoTo
  <2>2. (StartupTypes /\ DatabaseReady /\ TlsReady /\ Untouched)'
    BY <1>0, <2>1 DEF StartupInv, StartupTypes, DatabaseReady, TlsReady, Untouched, validate_server_certificate
  <2>3. params' \in [Files -> Contents] /\ errored' \in Seq(Files) /\ index' \in 1..Len(kParamFiles) + 1
    BY <1>0, <2>1 DEF Contents
  <2>4. ASSUME NEW i \in 1..index' - 1 PROVE Passes(kParamFiles[i])' \/ \E j \in 1..Len(errored') : errored'[j] = kParamFiles[i]
    <3>1. CASE accepted
      <4>1. i \in 1..index - 1 \/ kParamFiles[i] = file
        BY <1>0, <2>1 DEF file
      <4> QED BY <1>0, <2>1, <3>1, <4>1 DEF Passes, accepted
    <3>2. CASE ~accepted
      <4>1. /\ Len(errored') = Len(errored) + 1 /\ errored'[Len(errored) + 1] = file
            /\ \A j \in 1..Len(errored) : errored'[j] = errored[j]
        BY <1>0, <2>1, <3>2
      <4>2. CASE kParamFiles[i] = file
        BY <1>0, <4>1, <4>2
      <4>3. CASE kParamFiles[i] # file
        <5>1. i \in 1..index - 1 /\ kParamFiles[i] \in Files
            BY <1>0, <2>1, <4>3 DEF file
        <5>2. CASE Passes(kParamFiles[i])
            BY <1>0, <2>1, <3>2, <4>3, <5>1, <5>2 DEF Passes
        <5>3. CASE \E j \in 1..Len(errored) : errored[j] = kParamFiles[i]
            BY <1>0, <4>1, <5>3
        <5> QED BY <1>0, <5>1, <5>2, <5>3
      <4> QED BY <4>2, <4>3
    <3> QED BY <3>1, <3>2
  <2>5. ParamsReady'
    BY <2>1, <2>3, <2>4 DEF ParamsReady, Passes
  <2> QED BY <2>2, <2>5 DEF StartupInv
<1> QED BY <1>1, <1>2

\* With every file seen, those that do not pass are exactly to be downloaded;
\* when there is none the hub starts.
LEMMA AskDownloadIInv == ASSUME StartupInv, AskDownload PROVE StartupInv'
<1>0. /\ params \in [Files -> Contents] /\ pairs \in Nat /\ pc = "params"
      /\ UNCHANGED <<chaindata, certificate, key, params, pairs, settings>> /\ index' = 1
      /\ errored \in Seq(Files) /\ kParamFiles \in Seq(Files)
    BY StartupAssumption DEF StartupInv, StartupTypes, ParamsReady, AskDownload, GoTo, disk, Files
<1>1. \A f \in Files : Passes(f) \/ \E j \in 1..Len(errored) : errored[j] = f
  <2>1. \A i \in 1..Len(kParamFiles) : Passes(kParamFiles[i]) \/ \E j \in 1..Len(errored) : errored[j] = kParamFiles[i]
    BY <1>0 DEF StartupInv, ParamsReady, AskDownload
  <2> QED BY <1>0, <2>1 DEF Files
<1>2. pc' \in {"hub", "download", "down"}
    BY DEF AskDownload, GoTo
<1>3. (StartupTypes /\ DatabaseReady /\ TlsReady)'
    BY <1>0, <1>2 DEF StartupInv, StartupTypes, DatabaseReady, TlsReady, validate_server_certificate
<1>4. Untouched'
    BY <1>0 DEF AskDownload, GoTo, Untouched
<1>5. ParamsReady'
  <2>1. CASE pc' = "hub"
    <3>1. errored = <<>>
        BY <1>0, <2>1 DEF AskDownload, GoTo
    <3>2. \A f \in Files : Passes(f)'
        BY <1>0, <1>1, <3>1 DEF Passes
    <3> QED BY <1>0, <2>1, <3>2 DEF ParamsReady
  <2>2. CASE pc' = "download"
    <3>1. errored' = errored /\ Len(errored) \in Nat \ {0}
        BY <1>0, <2>2 DEF AskDownload, GoTo
    <3>2. \A f \in Files : Passes(f)' \/ \E j \in index'..Len(errored') : errored'[j] = f
        BY <1>0, <1>1, <3>1 DEF Passes
    <3> QED BY <1>0, <2>2, <3>1, <3>2 DEF ParamsReady
  <2>3. CASE pc' = "down"
    BY <1>0, <2>3 DEF ParamsReady
  <2> QED BY <1>2, <2>1, <2>2, <2>3
<1> QED BY <1>3, <1>4, <1>5 DEF StartupInv

\* A download that completes with the right content leaves one file less to
\* download; anything else ends the process.
LEMMA DownloadIInv == ASSUME StartupInv, download_param_file PROVE StartupInv'
<1>0. /\ params \in [Files -> Contents] /\ pairs' \in Nat /\ chaindata' = chaindata /\ pc = "download"
      /\ errored \in Seq(Files) /\ index \in 1..Len(errored) /\ errored[index] \in Files
      /\ \A f \in Files : Passes(f) \/ \E j \in index..Len(errored) : errored[j] = f
    BY DEF StartupInv, StartupTypes, ParamsReady, download_param_file
<1>1. params' \in [Files -> Contents]
    BY <1>0 DEF download_param_file, Contents
<1>2. CASE Exit
    BY <1>0, <1>1, <1>2, ExitIInv
<1>3. CASE ~Exit
  <2>1. /\ params' = [params EXCEPT ![errored[index]] = "good"]
        /\ UNCHANGED <<chaindata, certificate, key, pairs, settings>>
        /\ \/ index = Len(errored) /\ pc' = "hub" /\ index' = 1 /\ errored' = <<>>
           \/ index # Len(errored) /\ pc' = "download" /\ index' = index + 1 /\ errored' = errored
    BY <1>3 DEF download_param_file, GoTo, passes
  <2>2. ASSUME NEW f \in Files PROVE Passes(f)' \/ \E j \in index + 1..Len(errored) : errored[j] = f
    <3>1. CASE f = errored[index]
        BY <1>0, <2>1, <3>1 DEF Passes
    <3>2. CASE f # errored[index] /\ Passes(f)
        BY <1>0, <2>1, <3>2 DEF Passes
    <3>3. CASE f # errored[index] /\ ~Passes(f)
        BY <1>0, <3>3
    <3> QED BY <3>1, <3>2, <3>3
  <2>3. (StartupTypes /\ DatabaseReady /\ TlsReady /\ Untouched)'
    BY <1>0, <2>1 DEF StartupInv, StartupTypes, DatabaseReady, TlsReady, Untouched, validate_server_certificate
  <2>4. ParamsReady'
    <3>1. CASE index = Len(errored)
      <4>1. \A f \in Files : Passes(f)'
        BY <1>0, <2>2, <3>1
      <4> QED BY <1>0, <1>1, <2>1, <3>1, <4>1 DEF ParamsReady
    <3>2. CASE index # Len(errored)
        BY <1>0, <1>1, <2>1, <2>2, <3>2 DEF ParamsReady
    <3> QED BY <3>1, <3>2
  <2> QED BY <2>3, <2>4 DEF StartupInv
<1> QED BY <1>2, <1>3

\* The hub starts, runs and stops without touching the disk.
LEMMA HubIInv == ASSUME StartupInv, StartHub \/ LeaveLoop \/ StopHub PROVE StartupInv'
<1>0. pairs \in Nat /\ params \in [Files -> Contents] /\ UNCHANGED <<chaindata, certificate, key, params, pairs>>
    BY DEF StartupInv, StartupTypes, ParamsReady, StartHub, LeaveLoop, StopHub, disk
<1>1. CASE StopHub
    BY <1>0, <1>1, ExitIInv DEF StopHub
<1>2. CASE StartHub \/ LeaveLoop
  <2>1. UNCHANGED <<settings, index, errored>> /\ pc \in FromHub /\ pc' \in FromHub
    BY <1>2 DEF StartHub, LeaveLoop, GoTo
  <2>2. (StartupTypes /\ DatabaseReady /\ TlsReady /\ Untouched)'
    BY <1>0, <2>1 DEF StartupInv, StartupTypes, DatabaseReady, TlsReady, Untouched, validate_server_certificate
  <2>3. ParamsReady'
    BY <1>0, <2>1 DEF StartupInv, ParamsReady, Passes
  <2> QED BY <2>2, <2>3 DEF StartupInv
<1> QED BY <1>1, <1>2

\* A signal is only counted, unless it is the last, and a killed process
\* leaves a file that is found wrong when it is looked at again.
LEMMA SignalsIInv == ASSUME StartupInv, handle \/ Kill PROVE StartupInv'
<1>0. pairs' \in Nat /\ params \in [Files -> Contents] /\ chaindata' = chaindata
    BY DEF StartupInv, StartupTypes, ParamsReady, handle, Kill, disk
<1>1. CASE Exit
  <2>1. params' \in [Files -> Contents]
    BY <1>0 DEF handle, Kill, disk, Contents
  <2> QED BY <1>0, <1>1, <2>1, ExitIInv
<1>2. CASE ~Exit
  <2>1. UNCHANGED <<chaindata, certificate, key, params, pairs, settings, pc, index, errored>>
    BY <1>2 DEF handle, Kill, disk
  <2> QED BY <2>1 DEF StartupInv, StartupTypes, DatabaseReady, TlsReady, ParamsReady, Untouched, validate_server_certificate, Passes
<1> QED BY <1>1, <1>2

\* Every step of the program, of its signals and of its end keeps the invariant.
LEMMA NextIInv == StartupInv /\ [StartupNext]_startupVars => StartupInv'
<1>1. ASSUME StartupInv, UNCHANGED startupVars PROVE StartupInv'
    BY <1>1 DEF startupVars, StartupInv, StartupTypes, DatabaseReady, TlsReady, ParamsReady, Untouched, validate_server_certificate,
       Passes
<1> QED
    BY <1>1, LaunchIInv, DatabaseIInv, TlsIInv, CheckParamIInv, AskDownloadIInv, DownloadIInv, HubIInv, SignalsIInv
    DEF StartupNext, StartupProceeds

\* The node never runs on anything but a database of its page size, schema
\* and chain, a key with its own certificate, and parameter files that were
\* verified, whatever the failures, signals and kills of the runs before left
\* behind and however many they were (node.cpp 44-104, secure.cpp 371-434,
\* params.cpp 62-160).
THEOREM NodeRunsPrepared == StartupSpec => []RunsPrepared
<1>1. StartupInv => RunsPrepared
    BY DEF StartupInv, StartupTypes, DatabaseReady, TlsReady, ParamsReady, RunsPrepared, Passes, validate_server_certificate
<1> QED BY <1>1, InitIInv, NextIInv, PTL DEF StartupSpec

-----------------------------------------------------------------------------
(* Timer and Worker.                                                       *)

\* The coroutine of a timer is the only one alive, and the timer is not kNotStarted meanwhile.
TimerInv ==
    /\ timer = [state |-> timer.state, autoreset |-> timer.autoreset, cancels |-> timer.cancels]
    /\ work = [life \in Lives |-> [at |-> work[life].at, interval |-> work[life].interval]]
    /\ \A a, b \in Alive(work) : a = b
    /\ Alive(work) # {} => timer.state # "kNotStarted"

\* A thread that is about to look for a kick expects one.
WorkerInv ==
    /\ worker = [state |-> worker.state, kicked |-> worker.kicked, thread |-> worker.thread, client |-> worker.client]
    /\ worker.kicked \in BOOLEAN
    /\ run = [life \in Lives |-> [at |-> run[life].at, expected |-> run[life].expected]]
    /\ \A life \in Lives : run[life].at \in {"loop", "cas"} => run[life].expected = TRUE

\* A set of which all members are equal has one at most.
LEMMA AtMostOne == ASSUME NEW S, \A a, b \in S : a = b PROVE Cardinality(S) <= 1
<1>1. CASE S = {}
  BY <1>1, FS_EmptySet
<1>2. ASSUME NEW x \in S PROVE Cardinality(S) <= 1
  <2>1. S = {x}
    OBVIOUS
  <2> QED BY <2>1, FS_Singleton
<1> QED BY <1>1, <1>2

\* No step of the timer, its client or its executor starts a second coroutine.
LEMMA TimerStep == ASSUME TimerInv, TimerNext PROVE TimerInv'
<1> USE DEF TimerInv, Alive, Idle
<1>1. ASSUME NEW interval \in 0 .. 1, TimerStart(interval) PROVE TimerInv'
  BY ZenonT(30), <1>1 DEF TimerStart, can_start
<1>2. CASE TimerStop
  BY Zenon, <1>2 DEF TimerStop, is_running, stop_state
<1>3. CASE TimerCancel \/ TimerReset
  <2>1. work' = cancelled /\ timer'.state = timer.state
    BY <1>3 DEF TimerCancel, TimerReset
  <2>2. \A life \in Lives : (work'[life].at = "none") = (work[life].at = "none")
    BY <2>1 DEF cancelled
  <2>3. work' = [life \in Lives |-> [at |-> work'[life].at, interval |-> work'[life].interval]]
    BY <2>1 DEF cancelled
  <2>4. timer' = [state |-> timer'.state, autoreset |-> timer'.autoreset, cancels |-> timer'.cancels]
    BY <1>3 DEF TimerCancel, TimerReset
  <2> QED BY <2>1, <2>2, <2>3, <2>4
<1>4. ASSUME NEW life \in Lives, Arm(life) \/ Expire(life) \/ Again(life) PROVE TimerInv'
  BY <1>4 DEF Arm, Expire, Again, Resume
<1>5. ASSUME NEW life \in Lives, CallBack(life) PROVE TimerInv'
  BY <1>5 DEF CallBack, Resume
<1>6. ASSUME NEW life \in Lives, WorkEnds(life) PROVE TimerInv'
  BY <1>6 DEF WorkEnds, NoWork
<1> QED BY <1>1, <1>2, <1>3, <1>4, <1>5, <1>6 DEF TimerNext

\* A thread that was not kicked, or whose wait timed out, expects a kick again before it looks for one.
LEMMA WorkerStep == ASSUME WorkerInv, WorkerNext PROVE WorkerInv' /\ JobTakesKick
<1> USE DEF WorkerInv, JobTakesKick
<1>1. CASE WorkerStart
  <2>1. PICK life \in Lives : run' = [run EXCEPT ![life] = [at |-> "loop", expected |-> TRUE]]
    BY Zenon, <1>1 DEF WorkerStart, Idle
  <2>2. worker'.kicked = FALSE /\ WorkerInv!1'
    BY Zenon, <1>1 DEF WorkerStart
  <2> QED BY Zenon, <2>1, <2>2
<1>2. CASE Kick \/ WorkerStop \/ Join
  <2>1. UNCHANGED run
    BY <1>2 DEF Kick, WorkerStop, Join
  <2>2. worker'.kicked \in BOOLEAN
    BY Zenon, <1>2 DEF Kick, WorkerStop, Join
  <2>3. WorkerInv!1'
    BY Zenon, <1>2 DEF Kick, WorkerStop, Join
  <2> QED BY <2>1, <2>2, <2>3
<1>3. ASSUME NEW life \in Lives, Loop(life) PROVE WorkerInv' /\ JobTakesKick
  <2>1. worker' = worker
    BY <1>3 DEF Loop, Move
  <2>2. run[life].at = "loop" /\ \E at \in {"cas", "end"} : run' = [run EXCEPT ![life].at = at]
    BY Zenon, <1>3 DEF Loop, Move
  <2> QED BY <2>1, <2>2
<1>4. ASSUME NEW life \in Lives, TryKick(life) PROVE WorkerInv' /\ JobTakesKick
  <2>1. CASE worker.kicked = TRUE
    <3>1. worker' = [worker EXCEPT !.kicked = FALSE] /\ run' = [run EXCEPT ![life].at = "job"]
      BY Zenon, <1>4, <2>1 DEF TryKick
    <3>2. worker'.kicked = FALSE
      BY <3>1
    <3>3. WorkerInv!1' /\ JobTakesKick
      BY Zenon, <2>1, <3>1
    <3>4. WorkerInv!3' /\ WorkerInv!4'
      BY <3>1
    <3> QED BY Zenon, <3>2, <3>3, <3>4
  <2>2. CASE worker.kicked = FALSE
    <3>1. worker' = worker /\ run' = [run EXCEPT ![life] = [at |-> "sleep", expected |-> worker.kicked]]
      BY <1>4, <2>2 DEF TryKick
    <3> QED BY <2>2, <3>1
  <2> QED BY Zenon, <2>1, <2>2
<1>5. ASSUME NEW life \in Lives, Wake(life) PROVE WorkerInv' /\ JobTakesKick
  <2>1. worker' = worker
    BY <1>5 DEF Wake
  <2>2. \/ run' = [run EXCEPT ![life] = [at |-> "cas", expected |-> TRUE]]
        \/ run' = [run EXCEPT ![life] = [at |-> "loop", expected |-> TRUE]]
    BY <1>5 DEF Wake, expected_again
  <2> QED BY <2>1, <2>2
<1>6. ASSUME NEW life \in Lives, Job(life) PROVE WorkerInv' /\ JobTakesKick
  BY <1>6 DEF Job
<1>7. ASSUME NEW life \in Lives, SetStopped(life) PROVE WorkerInv' /\ JobTakesKick
  BY <1>7 DEF SetStopped
<1>8. ASSUME NEW life \in Lives, ClearKick(life) PROVE WorkerInv' /\ JobTakesKick
  <2>1. worker' = [worker EXCEPT !.kicked = FALSE] /\ run' = [run EXCEPT ![life] = [at |-> "none", expected |-> TRUE]]
    BY <1>8 DEF ClearKick, NoRun
  <2> QED BY Zenon, <2>1
<1> QED BY Zenon, <1>1, <1>2, <1>3, <1>4, <1>5, <1>6, <1>7, <1>8 DEF WorkerNext

\* However starts, stops, kicks and timeouts interleave, a timer has one coroutine at most and a worker does
\* its job only on a kick, which it takes (timer.cpp 40-97, worker.cpp 90-103).
THEOREM ComponentsRunAsAsked == ConcurrencySpec => RunsAsAsked
<1>1. InitConcurrency => TimerInv /\ WorkerInv
  BY DEF InitConcurrency, TimerInv, WorkerInv, NoWork, NoRun, Alive, Idle
<1>2. TimerInv /\ WorkerInv /\ [TimerNext \/ WorkerNext]_concurrencyVars => (TimerInv /\ WorkerInv)' /\ (JobTakesKick \/ UNCHANGED concurrencyVars)
  <2> SUFFICES ASSUME TimerInv, WorkerInv, [TimerNext \/ WorkerNext]_concurrencyVars
               PROVE  (TimerInv /\ WorkerInv)' /\ (JobTakesKick \/ UNCHANGED concurrencyVars)
    OBVIOUS
  <2>1. CASE TimerNext
    <3>1. UNCHANGED <<worker, run>>
      BY <2>1 DEF TimerNext
    <3> QED BY <2>1, <3>1, TimerStep DEF WorkerInv, JobTakesKick
  <2>2. CASE WorkerNext
    <3>1. UNCHANGED <<timer, work>>
      BY <2>2 DEF WorkerNext
    <3> QED BY <2>2, <3>1, WorkerStep DEF TimerInv, Alive, Idle
  <2>3. CASE UNCHANGED concurrencyVars
    BY <2>3 DEF concurrencyVars, TimerInv, WorkerInv, Alive, Idle
  <2> QED BY <2>1, <2>2, <2>3
<1>3. TimerInv => OneCoroutine
  BY AtMostOne DEF TimerInv, OneCoroutine
<1> QED BY <1>1, <1>2, <1>3, PTL DEF ConcurrencySpec, RunsAsAsked

-----------------------------------------------------------------------------
(* The stages and their transactions.                                      *)

\* The stages in the order they run, and how far each of them is.
Steps == DOMAIN Stages
Progress(data, i) == data[Stages[i]]

\* The stages that ran in a transaction are one block ahead of those that did not, and a transaction of the
\* caller is ahead of the database by exactly those.
StagesInv ==
    /\ txn = [kind |-> txn.kind, data |-> txn.data, next |-> txn.next]
    /\ txn.kind \in {"none", "managed", "external"} /\ txn.next \in Nat \ {0}
    /\ committed \in [Range(Stages) -> Nat] /\ txn.data \in [Range(Stages) -> Nat]
    /\ \A i, j \in Steps : i < j => Progress(committed, i) >= Progress(committed, j)
    /\ txn.kind # "none" => \A i, j \in Steps : i < j =>
           Progress(txn.data, i) >= Progress(txn.data, j) + IF i < txn.next /\ txn.next <= j THEN 1 ELSE 0
    /\ txn.kind = "managed" => committed = txn.data
    /\ txn.kind = "external" =>
           \A i \in Steps : Progress(txn.data, i) = Progress(committed, i) + IF i < txn.next THEN 1 ELSE 0

\* A caller that lends its transaction gets all of the stages into the database, or none.
AllOrNone ==
    txn.kind = "external" =>
        \/ committed' = committed
        \/ \A s \in Range(Stages) : committed'[s] = committed[s] + 1

\* Stages are numbered from 1 and no two of them are the same.
LEMMA StageFacts ==
    /\ Steps = 1 .. Len(Stages) /\ Len(Stages) \in Nat
    /\ \A i \in Steps : Stages[i] \in Range(Stages)
    /\ \A i, j \in Steps : Stages[i] = Stages[j] => i = j
    /\ \A s \in Range(Stages) : \E i \in Steps : s = Stages[i]
  BY DatabaseAssumption DEF Steps, Range, IsInjective

\* The progress of a stage is a block number.
LEMMA ProgressType ==
    ASSUME NEW data \in [Range(Stages) -> Nat], NEW i \in Steps PROVE Progress(data, i) \in Nat
  BY StageFacts DEF Progress

\* A stage moves one block forward.
LEMMA ForwardStep == ASSUME StagesInv, Forward PROVE StagesInv' /\ AllOrNone
<1> DEFINE p == txn.next
           s == Stages[p]
           data == update_progress(txn.data, s)
<1>1. txn.kind \in {"managed", "external"} /\ p \in Nat
  BY DEF Forward, StagesInv
<1>2. /\ txn' = [txn EXCEPT !.data = data, !.next = @ + 1]
      /\ committed' = IF txn.kind = "managed" THEN data ELSE committed
      /\ p <= Len(Stages)
  BY DEF Forward, commits
<1>p. p >= 1
  BY DEF StagesInv
<1>3. txn'.kind = txn.kind /\ txn'.data = data /\ txn'.next = p + 1 /\ txn' = [kind |-> txn.kind, data |-> data, next |-> p + 1]
  BY Zenon, <1>2 DEF StagesInv
<1>4. data = [txn.data EXCEPT ![s] = @ + 1] /\ txn.data \in [Range(Stages) -> Nat]
  BY DEF update_progress, StagesInv
<1> DEFINE d == txn.data
<1> HIDE DEF s, data, d, p
<1>s. p \in Steps /\ s = Stages[p] /\ s \in Range(Stages)
  BY <1>1, <1>2, <1>p, StageFacts DEF s
<1>5. data \in [Range(Stages) -> Nat] /\ \A x \in Range(Stages) : data[x] = IF x = s THEN d[x] + 1 ELSE d[x]
  <2>1. d \in [Range(Stages) -> Nat] /\ data = [d EXCEPT ![s] = @ + 1]
    BY <1>4 DEF d
  <2> QED BY <1>s, <2>1
<1>6. \A i \in Steps : Progress(data, i) = Progress(txn.data, i) + IF i = p THEN 1 ELSE 0
  <2> SUFFICES ASSUME NEW i \in Steps PROVE data[Stages[i]] = d[Stages[i]] + IF i = p THEN 1 ELSE 0
    BY DEF Progress, d
  <2>1. Stages[i] = s <=> i = p
    BY <1>s, StageFacts
  <2>2. Stages[i] \in Range(Stages) /\ d[Stages[i]] \in Nat
    BY <1>4, StageFacts DEF d
  <2> QED BY <1>5, <2>1, <2>2
<1>7. \A i \in Steps : i \in Nat /\ Progress(txn.data, i) \in Nat /\ Progress(data, i) \in Nat
  <2>1. \A i \in Steps : i \in Nat
    BY StageFacts
  <2>2. \A i \in Steps : Progress(txn.data, i) \in Nat
    BY <1>4, ProgressType
  <2>3. \A i \in Steps : Progress(data, i) \in Nat
    BY <1>5, ProgressType
  <2> QED BY <2>1, <2>2, <2>3
<1>8. ASSUME NEW i \in Steps, NEW j \in Steps, i < j
      PROVE  Progress(data, i) >= Progress(data, j) + IF i < p + 1 /\ p + 1 <= j THEN 1 ELSE 0
  <2>1. Progress(txn.data, i) >= Progress(txn.data, j) + IF i < p /\ p <= j THEN 1 ELSE 0
    BY <1>1, <1>8 DEF StagesInv, p
  <2>2. CASE i < p /\ j # p
    BY <1>1, <1>6, <1>7, <1>8, <2>1, <2>2
  <2>3. CASE i < p /\ j = p
    BY <1>1, <1>6, <1>7, <1>8, <2>1, <2>3
  <2>4. CASE i = p
    BY <1>1, <1>6, <1>7, <1>8, <2>1, <2>4
  <2>5. CASE i > p
    BY <1>1, <1>6, <1>7, <1>8, <2>1, <2>5
  <2> QED BY <1>1, <1>7, <2>2, <2>3, <2>4, <2>5
<1>9. \A i, j \in Steps : i < j => Progress(data, i) >= Progress(data, j)
  BY <1>7, <1>8, <1>1
<1>10. CASE txn.kind = "managed"
  <2>1. committed' = data
    BY <1>2, <1>10
  <2> QED BY <1>1, <1>3, <1>5, <1>8, <1>9, <1>10, <2>1 DEF StagesInv, AllOrNone
<1>11. CASE txn.kind = "external"
  <2>1. committed' = committed
    BY <1>2, <1>11
  <2>2. ASSUME NEW i \in Steps PROVE Progress(data, i) = Progress(committed, i) + IF i < p + 1 THEN 1 ELSE 0
    <3>1. Progress(txn.data, i) = Progress(committed, i) + IF i < p THEN 1 ELSE 0
      BY <1>11 DEF StagesInv, p
    <3>2. Progress(committed, i) \in Nat /\ i \in Nat
      BY <1>7, ProgressType DEF StagesInv
    <3> QED BY <1>1, <1>6, <3>1, <3>2
  <2> QED BY <1>1, <1>3, <1>5, <1>8, <1>11, <2>1, <2>2 DEF StagesInv, AllOrNone
<1> QED BY <1>1, <1>10, <1>11

\* The caller commits after the last stage: each of them is a block ahead.
LEMMA CommitStep == ASSUME StagesInv, CallerCommits PROVE StagesInv' /\ AllOrNone
<1>1. committed' = txn.data /\ txn' = NoTxn /\ txn.next > Len(Stages) /\ txn.kind \in {"managed", "external"}
  BY DEF CallerCommits, StagesInv
<1>2. NoTxn.data \in [Range(Stages) -> Nat] /\ NoTxn.kind = "none" /\ NoTxn.next = 1
      /\ NoTxn = [kind |-> NoTxn.kind, data |-> NoTxn.data, next |-> NoTxn.next]
  BY DEF NoTxn
<1>3. \A i \in Steps : Progress(txn.data, i) \in Nat /\ Progress(committed, i) \in Nat /\ i \in Nat
  BY ProgressType, StageFacts DEF StagesInv
<1>4. \A i, j \in Steps : i < j => Progress(txn.data, i) >= Progress(txn.data, j)
  <2> SUFFICES ASSUME NEW i \in Steps, NEW j \in Steps, i < j PROVE Progress(txn.data, i) >= Progress(txn.data, j)
    OBVIOUS
  <2>1. Progress(txn.data, i) >= Progress(txn.data, j) + IF i < txn.next /\ txn.next <= j THEN 1 ELSE 0
    BY <1>1 DEF StagesInv
  <2> QED BY <1>3, <2>1
<1>5. StagesInv'
  BY <1>1, <1>2, <1>4 DEF StagesInv
<1>6. ASSUME txn.kind = "external", NEW s \in Range(Stages) PROVE committed'[s] = committed[s] + 1
  <2>1. PICK i \in Steps : s = Stages[i]
    BY StageFacts
  <2>2. i < txn.next
    BY <1>1, StageFacts DEF StagesInv
  <2>3. Progress(txn.data, i) = Progress(committed, i) + 1
    BY <1>6, <2>2 DEF StagesInv
  <2> QED BY <1>1, <2>1, <2>3 DEF Progress
<1> QED BY <1>5, <1>6 DEF AllOrNone

\* A transaction begins on what is committed, and leaves nothing when it is aborted.
LEMMA BeginStep ==
    ASSUME StagesInv, Abort \/ \E kind \in {"managed", "external"} : Begin(kind) PROVE StagesInv' /\ AllOrNone
<1>1. CASE Abort
  <2>1. NoTxn.data \in [Range(Stages) -> Nat] /\ NoTxn.kind = "none" /\ NoTxn.next = 1
        /\ NoTxn = [kind |-> NoTxn.kind, data |-> NoTxn.data, next |-> NoTxn.next]
    BY DEF NoTxn
  <2> QED BY <1>1, <2>1 DEF Abort, StagesInv, AllOrNone
<1>2. ASSUME NEW kind \in {"managed", "external"}, Begin(kind) PROVE StagesInv' /\ AllOrNone
  <2>1. txn'.kind = kind /\ txn'.data = committed /\ txn'.next = 1 /\ committed' = committed
        /\ txn' = [kind |-> kind, data |-> committed, next |-> 1]
    BY <1>2 DEF Begin
  <2>2. \A i \in Steps : Progress(committed, i) \in Nat /\ i \in Nat /\ i >= 1
    BY ProgressType, StageFacts DEF StagesInv
  <2>3. \A i, j \in Steps : i < j => Progress(committed, i) >= Progress(committed, j) + IF i < 1 /\ 1 <= j THEN 1 ELSE 0
    BY <2>2 DEF StagesInv
  <2>4. \A i \in Steps : Progress(committed, i) = Progress(committed, i) + IF i < 1 THEN 1 ELSE 0
    BY <2>2
  <2> QED BY <2>1, <2>3, <2>4 DEF StagesInv, AllOrNone
<1> QED BY <1>1, <1>2

\* Whatever is aborted or crashes, and for any number of stages: in the caller's transaction all of them move
\* or none, in their own no stage overtakes one that runs before it (mdbx.hpp 79-117, stages.cpp 28-92).
THEOREM StagesStayAtomic == DatabaseSpec => StagesAtomic
<1>1. NoDatabase => StagesInv
  <2> SUFFICES ASSUME NoStages PROVE StagesInv
    BY DEF NoDatabase
  <2>1. NoTxn.data \in [Range(Stages) -> Nat] /\ NoTxn.kind = "none" /\ NoTxn.next = 1
        /\ NoTxn = [kind |-> NoTxn.kind, data |-> NoTxn.data, next |-> NoTxn.next]
        /\ \A s \in Range(Stages) : NoTxn.data[s] = 0
    BY DEF NoTxn
  <2>2. \A i \in Steps : Progress(committed, i) = 0
    BY <2>1, StageFacts DEF NoStages, Progress
  <2> QED BY <2>1, <2>2 DEF NoStages, StagesInv
<1>2. StagesInv /\ [StagesNext \/ CursorsNext]_databaseVars => StagesInv' /\ (AllOrNone \/ UNCHANGED stageVars)
  <2> SUFFICES ASSUME StagesInv, [StagesNext \/ CursorsNext]_databaseVars
               PROVE  StagesInv' /\ (AllOrNone \/ UNCHANGED stageVars)
    OBVIOUS
  <2>1. CASE StagesNext
    BY <2>1, ForwardStep, CommitStep, BeginStep DEF StagesNext
  <2>2. CASE UNCHANGED <<committed, txn>>
    BY <2>2 DEF StagesInv, stageVars, Progress
  <2>3. CASE CursorsNext \/ UNCHANGED databaseVars
    BY <2>2, <2>3 DEF CursorsNext, databaseVars, stageVars
  <2> QED BY <2>1, <2>3
<1>3. StagesInv => \A i, j \in DOMAIN Stages : i < j => committed[Stages[i]] >= committed[Stages[j]]
  BY DEF StagesInv, Steps, Progress
<1> QED BY <1>1, <1>2, <1>3, PTL DEF DatabaseSpec, StagesAtomic, AllOrNone

-----------------------------------------------------------------------------
(* The handles of the cursors.                                             *)

\* The handles of libmdbx, where they are kept, and those that do not exist.
Handles == 1 .. MaxHandles
Pooled(h) == \E i \in DOMAIN handles_pool_ : handles_pool_[i] = h
InUse(h) == \E c \in Cursors : cursor[c] = h
Gone == {"new", "closed"}

\* The types of the variables of the cursors.
HandleTypes ==
    /\ cursor \in [Cursors -> Handles \cup {0}]
    /\ handles_pool_ \in Seq(Handles)
    /\ bound \in [Handles -> Gone \cup {"unbound"} \cup Txns]

\* A handle that exists is in a cursor or in the pool, in one place; one that does not is in none.
HandlesInv ==
    /\ HandleTypes
    /\ \A c, d \in Cursors : cursor[c] = cursor[d] /\ cursor[c] # 0 => c = d
    /\ \A i, j \in DOMAIN handles_pool_ : handles_pool_[i] = handles_pool_[j] => i = j
    /\ \A h \in Handles : ~(Pooled(h) /\ InUse(h))
    /\ \A h \in Handles : bound[h] \notin Gone <=> Pooled(h) \/ InUse(h)

\* No handle is mistaken for none, and no transaction for a state without one.
LEMMA HandleFacts ==
    /\ 0 \notin Handles /\ Gone \cap Txns = {} /\ "unbound" \notin Gone
    /\ HandleTypes => \A i \in DOMAIN handles_pool_ : handles_pool_[i] \in Handles
    /\ HandleTypes => \A c \in Cursors : cursor[c] # 0 => cursor[c] \in Handles
  BY DatabaseAssumption DEF Handles, Gone, Txns, HandleTypes

\* What the invariant says of handles is what HandlesUnshared does.
LEMMA HandlesInvShows == HandlesInv => HandlesUnshared
<1> SUFFICES ASSUME HandlesInv PROVE HandlesUnshared
  OBVIOUS
<1> DEFINE Owned == {c \in Cursors : cursor[c] # 0}
           TheirHandles == {cursor[c] : c \in Owned}
<1>1. \A h \in Handles : (h \in Range(handles_pool_) <=> Pooled(h)) /\ (h \in TheirHandles <=> InUse(h))
  BY HandleFacts DEF Range, Pooled, InUse
<1>2. Range(handles_pool_) \subseteq Handles /\ TheirHandles \subseteq Handles
  BY HandleFacts DEF HandlesInv, Range
<1>3. \A c, d \in Owned : cursor[c] = cursor[d] => c = d
  BY DEF HandlesInv
<1>4. IsInjective(handles_pool_)
  BY DEF HandlesInv, IsInjective
<1> HIDE DEF TheirHandles
<1>5. Range(handles_pool_) \cap TheirHandles = {}
  BY <1>1, <1>2 DEF HandlesInv
<1>6. \A h \in Range(handles_pool_) \cup TheirHandles : bound[h] # "closed"
  BY <1>1, <1>2 DEF HandlesInv, Gone
<1>7. \A h \in DOMAIN bound : bound[h] \in {"unbound"} \cup Txns => h \in Range(handles_pool_) \cup TheirHandles
  BY <1>1, HandleFacts DEF HandlesInv, HandleTypes, Gone
<1> QED BY <1>3, <1>4, <1>5, <1>6, <1>7 DEF HandlesUnshared, TheirHandles

\* What bind does to the handles: the one it is given serves, or is closed and a new one takes its place.
LEMMA Bound ==
    ASSUME HandleTypes, NEW h \in Handles, NEW t \in Txns, NEW as \in Handles, bind(h, t, as)
    PROVE  /\ bound' \in [Handles -> Gone \cup {"unbound"} \cup Txns]
           /\ bound'[as] \notin Gone
           /\ \A k \in Handles \ {h, as} : bound'[k] = bound[k]
           /\ as # h => bound[as] = "new" /\ bound'[h] \in Gone /\ bound[h] # "new"
<1>1. CASE bound[h] \in {"unbound", "new", t}
  BY <1>1, HandleFacts DEF bind, HandleTypes
<1>2. CASE bound[h] \notin {"unbound", "new", t}
  <2>1. bound[as] = "new" /\ bound' = [bound EXCEPT ![h] = "closed", ![as] = t] /\ h # as
    BY ZenonT(30), <1>2 DEF bind, Create
  <2> QED BY Zenon, <1>2, <2>1, HandleFacts DEF HandleTypes, Gone
<1> QED BY Zenon, <1>1, <1>2

\* A cursor without a handle gets one, from the pool or a new one.
LEMMA OpenStep == ASSUME HandlesInv, NEW c \in Cursors, NEW t \in Txns, OpenCursor(c, t) PROVE HandlesInv'
<1> DEFINE pool == handles_pool_
<1>1. PICK h \in DOMAIN bound, as \in DOMAIN bound :
        /\ IF pool = <<>> THEN Create(h) ELSE h = Last(pool)
        /\ handles_pool_' = IF pool = <<>> THEN <<>> ELSE Front(pool)
        /\ bind(h, t, as)
        /\ cursor' = [cursor EXCEPT ![c] = as]
  BY Zenon DEF OpenCursor
<1>2. h \in Handles /\ as \in Handles /\ cursor[c] = 0 /\ HandleTypes
  BY Zenon DEF HandlesInv, HandleTypes, OpenCursor
<1>3. /\ bound' \in [Handles -> Gone \cup {"unbound"} \cup Txns]
      /\ bound'[as] \notin Gone
      /\ \A k \in Handles \ {h, as} : bound'[k] = bound[k]
      /\ as # h => bound[as] = "new" /\ bound'[h] \in Gone /\ bound[h] # "new"
  BY ZenonT(30), <1>1, <1>2, Bound
<1>4. /\ handles_pool_' \in Seq(Handles)
      /\ \A i \in DOMAIN handles_pool_' : i \in DOMAIN pool /\ handles_pool_'[i] = pool[i] /\ pool[i] # h
      /\ \A k \in Handles \ {h} : Pooled(k) => Pooled(k)'
      /\ ~InUse(h)
  <2>1. CASE pool = <<>>
    <3>1. bound[h] \in Gone /\ handles_pool_' = <<>>
      BY <1>1, <2>1 DEF Create, Gone
    <3> QED BY <1>2, <2>1, <3>1 DEF HandlesInv, Pooled
  <2>2. CASE pool # <<>>
    <3> DEFINE n == Len(pool)
    <3>1. n \in Nat /\ n >= 1 /\ DOMAIN pool = 1 .. n /\ pool \in Seq(Handles)
      BY <1>2, <2>2 DEF HandleTypes
    <3>2. h = pool[n] /\ handles_pool_' = SubSeq(pool, 1, n - 1)
      BY <1>1, <2>2 DEF Last, Front
    <3>3. handles_pool_' \in Seq(Handles) /\ DOMAIN handles_pool_' = 1 .. n - 1
          /\ \A i \in 1 .. n - 1 : handles_pool_'[i] = pool[i]
      BY <3>1, <3>2
    <3>4. \A i, j \in DOMAIN pool : pool[i] = pool[j] => i = j
      BY DEF HandlesInv
    <3> HIDE DEF n
    <3>5. \A i \in 1 .. n - 1 : i \in DOMAIN pool /\ pool[i] # h
      BY <3>1, <3>2, <3>4
    <3>6. Pooled(h)
      BY <3>1, <3>2 DEF Pooled
    <3>7. \A k \in Handles \ {h} : Pooled(k) => Pooled(k)'
      <4> SUFFICES ASSUME NEW k \in Handles \ {h}, NEW i \in DOMAIN pool, pool[i] = k PROVE Pooled(k)'
        BY DEF Pooled
      <4>1. i # n
        BY <3>2
      <4>2. i \in DOMAIN handles_pool_'
        BY <3>1, <3>3, <4>1
      <4>3. handles_pool_'[i] = k
        BY <3>3, <4>2
      <4> QED BY <4>2, <4>3 DEF Pooled
    <3> QED BY <1>2, <3>3, <3>5, <3>6, <3>7 DEF HandlesInv
  <2> QED BY <2>1, <2>2
<1>5. cursor' \in [Cursors -> Handles \cup {0}] /\ cursor'[c] = as /\ \A d \in Cursors \ {c} : cursor'[d] = cursor[d]
  BY Zenon, <1>1, <1>2 DEF HandleTypes
<1> HIDE DEF pool
<1>6. \A k \in Handles : (InUse(k)' <=> InUse(k) \/ k = as)
  BY Zenon, <1>2, <1>5, HandleFacts DEF InUse
<1>7. ~InUse(as) /\ (as # h => ~Pooled(as))
  BY ZenonT(30), <1>2, <1>3, <1>4 DEF HandlesInv, Gone
<1>8. \A k \in Handles : Pooled(k)' <=> Pooled(k) /\ k # h
  BY <1>4 DEF Pooled, pool
<1>9. HandleTypes'
  BY <1>3, <1>4, <1>5 DEF HandleTypes, Handles, Gone, Txns
<1>10. \A a, b \in Cursors : cursor'[a] = cursor'[b] /\ cursor'[a] # 0 => a = b
  BY ZenonT(30), <1>5, <1>7 DEF HandlesInv, InUse
<1>11. \A i, j \in DOMAIN handles_pool_' : handles_pool_'[i] = handles_pool_'[j] => i = j
  BY Zenon, <1>4 DEF HandlesInv, pool
<1>12. \A k \in Handles : ~(Pooled(k)' /\ InUse(k)')
  BY ZenonT(30), <1>6, <1>7, <1>8 DEF HandlesInv
<1>13. \A k \in Handles : bound'[k] \notin Gone <=> Pooled(k)' \/ InUse(k)'
  BY ZenonT(30), <1>2, <1>3, <1>4, <1>6, <1>8 DEF HandlesInv
<1>14. Handles' = Handles /\ Gone' = Gone
  BY DEF Handles, Gone
<1> QED BY <1>9, <1>10, <1>11, <1>12, <1>13, <1>14 DEF HandlesInv

\* A cursor is bound to another transaction.
LEMMA RebindStep == ASSUME HandlesInv, NEW c \in Cursors, NEW t \in Txns, Rebind(c, t) PROVE HandlesInv'
<1>1. PICK as \in DOMAIN bound : bind(cursor[c], t, as) /\ cursor' = [cursor EXCEPT ![c] = as]
  BY Zenon DEF Rebind
<1> DEFINE h == cursor[c]
<1>2. h \in Handles /\ as \in Handles /\ HandleTypes /\ handles_pool_' = handles_pool_ /\ InUse(h)
  BY Zenon, HandleFacts DEF HandlesInv, HandleTypes, Rebind, InUse
<1>3. /\ bound' \in [Handles -> Gone \cup {"unbound"} \cup Txns]
      /\ bound'[as] \notin Gone
      /\ \A k \in Handles \ {h, as} : bound'[k] = bound[k]
      /\ as # h => bound[as] = "new" /\ bound'[h] \in Gone /\ bound[h] # "new"
  BY Zenon, <1>1, <1>2, Bound
<1>5. cursor' \in [Cursors -> Handles \cup {0}] /\ cursor'[c] = as /\ \A d \in Cursors \ {c} : cursor'[d] = cursor[d]
  BY Zenon, <1>1, <1>2 DEF HandleTypes
<1>a. h = cursor[c] /\ \A d \in Cursors : cursor[d] = h => d = c
  BY <1>2, HandleFacts DEF HandlesInv
<1> HIDE DEF h
<1>6. \A k \in Handles : InUse(k)' <=> k = as \/ (InUse(k) /\ k # h)
  BY Zenon, <1>2, <1>5, <1>a DEF InUse
<1>7. as # h => ~InUse(as) /\ ~Pooled(as)
  BY ZenonT(30), <1>2, <1>3 DEF HandlesInv, Gone
<1>8. \A k \in Handles : Pooled(k)' <=> Pooled(k)
  BY <1>2 DEF Pooled
<1>9. HandleTypes'
  BY <1>2, <1>3, <1>5 DEF HandleTypes, Handles, Gone, Txns
<1>10. \A a, b \in Cursors : cursor'[a] = cursor'[b] /\ cursor'[a] # 0 => a = b
  <2>1. \A d \in Cursors \ {c} : cursor[d] # as
    BY Zenon, <1>7, <1>a DEF InUse
  <2>2. \A a, b \in Cursors : cursor[a] = cursor[b] /\ cursor[a] # 0 => a = b
    BY DEF HandlesInv
  <2> QED BY Zenon, <1>5, <2>1, <2>2
<1>11. \A i, j \in DOMAIN handles_pool_' : handles_pool_'[i] = handles_pool_'[j] => i = j
  BY <1>2 DEF HandlesInv
<1>12. \A k \in Handles : ~(Pooled(k)' /\ InUse(k)')
  BY Zenon, <1>2, <1>6, <1>7, <1>8 DEF HandlesInv
<1>13. \A k \in Handles : bound'[k] \notin Gone <=> Pooled(k)' \/ InUse(k)'
  BY ZenonT(30), <1>2, <1>3, <1>6, <1>8 DEF HandlesInv
<1>14. Handles' = Handles /\ Gone' = Gone
  BY DEF Handles, Gone
<1> QED BY ZenonT(30), <1>9, <1>10, <1>11, <1>12, <1>13, <1>14 DEF HandlesInv

\* Cursors are moved, closed and destroyed, and transactions end.
LEMMA OtherCursorSteps ==
    ASSUME HandlesInv,
           \/ \E c, d \in Cursors : MoveCursor(c, d)
           \/ \E c \in Cursors : CloseCursor(c)
           \/ \E c \in Cursors : DestroyCursor(c)
           \/ \E t \in Txns : EndTxn(t)
    PROVE  HandlesInv'
<1>t. HandleTypes /\ Handles' = Handles /\ Gone' = Gone /\ Txns' = Txns
  BY DEF HandlesInv, Handles, Gone, Txns
<1>1. ASSUME NEW c \in Cursors, NEW d \in Cursors, MoveCursor(c, d) PROVE HandlesInv'
  <2>1. /\ cursor' \in [Cursors -> Handles \cup {0}] /\ cursor'[c] = cursor[d] /\ cursor'[d] = cursor[c]
        /\ \A e \in Cursors \ {c, d} : cursor'[e] = cursor[e]
        /\ handles_pool_' = handles_pool_ /\ bound' = bound
    BY <1>1, <1>t DEF MoveCursor, moved, HandleTypes
  <2>2. \A h : (InUse(h)' <=> InUse(h)) /\ (Pooled(h)' <=> Pooled(h))
    BY <2>1 DEF InUse, Pooled
  <2>3. HandleTypes'
    BY <1>t, <2>1 DEF HandleTypes
  <2>4. \A a, b \in Cursors : cursor'[a] = cursor'[b] /\ cursor'[a] # 0 => a = b
    BY <2>1 DEF HandlesInv
  <2> QED BY <1>t, <2>1, <2>2, <2>3, <2>4 DEF HandlesInv
<1>2. ASSUME NEW c \in Cursors, CloseCursor(c) PROVE HandlesInv'
  <2> DEFINE h == cursor[c]
  <2>1. h \in Handles /\ handles_pool_' = handles_pool_ /\ InUse(h)
    BY <1>2, <1>t, HandleFacts DEF CloseCursor, InUse
  <2>2. /\ cursor' \in [Cursors -> Handles \cup {0}] /\ cursor'[c] = 0
        /\ \A e \in Cursors \ {c} : cursor'[e] = cursor[e]
        /\ bound' \in [Handles -> Gone \cup {"unbound"} \cup Txns] /\ bound'[h] = "closed"
        /\ \A k \in Handles \ {h} : bound'[k] = bound[k]
    BY <1>2, <1>t, <2>1 DEF CloseCursor, HandleTypes, Gone
  <2>3. h = cursor[c] /\ \A d \in Cursors : cursor[d] = h => d = c
    BY <2>1, HandleFacts DEF HandlesInv
  <2> HIDE DEF h
  <2>4. \A k \in Handles : (InUse(k)' <=> InUse(k) /\ k # h) /\ (Pooled(k)' <=> Pooled(k))
    BY <2>1, <2>2, <2>3, HandleFacts DEF InUse, Pooled
  <2>5. HandleTypes'
    BY <1>t, <2>1, <2>2 DEF HandleTypes
  <2>6. \A a, b \in Cursors : cursor'[a] = cursor'[b] /\ cursor'[a] # 0 => a = b
    BY <2>2 DEF HandlesInv
  <2>7. \A k \in Handles : bound'[k] \notin Gone <=> Pooled(k)' \/ InUse(k)'
    BY <2>1, <2>2, <2>4 DEF HandlesInv, Gone
  <2> QED BY Zenon, <1>t, <2>1, <2>4, <2>5, <2>6, <2>7 DEF HandlesInv
<1>3. ASSUME NEW c \in Cursors, DestroyCursor(c) PROVE HandlesInv'
  <2> DEFINE h == cursor[c]
             pool == handles_pool_
             n == Len(pool)
  <2>1. h \in Handles /\ pool \in Seq(Handles) /\ handles_pool_' = Append(pool, h) /\ bound' = bound /\ InUse(h)
    BY <1>3, <1>t, HandleFacts DEF DestroyCursor, InUse, HandleTypes
  <2>2. /\ cursor' \in [Cursors -> Handles \cup {0}] /\ cursor'[c] = 0
        /\ \A e \in Cursors \ {c} : cursor'[e] = cursor[e]
    BY <1>3, <1>t DEF DestroyCursor, HandleTypes
  <2>3. h = cursor[c] /\ \A d \in Cursors : cursor[d] = h => d = c
    BY <2>1, HandleFacts DEF HandlesInv
  <2> HIDE DEF h
  <2>4. n \in Nat /\ DOMAIN pool = 1 .. n /\ DOMAIN handles_pool_' = 1 .. n + 1 /\ handles_pool_' \in Seq(Handles)
        /\ handles_pool_'[n + 1] = h /\ \A i \in 1 .. n : handles_pool_'[i] = pool[i]
    BY <2>1
  <2> HIDE DEF n
  <2>5. \A k \in Handles : (InUse(k)' <=> InUse(k) /\ k # h)
    BY <2>1, <2>2, <2>3, HandleFacts DEF InUse
  <2>6. \A i \in DOMAIN handles_pool_' : i \in DOMAIN pool \/ i = n + 1
    BY <2>4
  <2>7. \A k \in Handles : (Pooled(k)' <=> Pooled(k) \/ k = h)
    <3>1. n + 1 \in DOMAIN handles_pool_' /\ \A i \in DOMAIN pool : i \in DOMAIN handles_pool_' /\ handles_pool_'[i] = pool[i]
      BY <2>4
    <3> QED BY <2>4, <2>6, <3>1 DEF Pooled
  <2>8. \A i, j \in DOMAIN handles_pool_' : handles_pool_'[i] = handles_pool_'[j] => i = j
    <3>1. ~Pooled(h)
      BY <2>1 DEF HandlesInv
    <3>2. \A i \in DOMAIN pool : pool[i] # h /\ handles_pool_'[i] = pool[i]
      BY <2>4, <3>1 DEF Pooled
    <3>3. \A i, j \in DOMAIN pool : pool[i] = pool[j] => i = j
      BY DEF HandlesInv
    <3> QED BY <2>4, <2>6, <3>2, <3>3
  <2>9. HandleTypes'
    BY <1>t, <2>1, <2>2, <2>4 DEF HandleTypes
  <2>10. \A a, b \in Cursors : cursor'[a] = cursor'[b] /\ cursor'[a] # 0 => a = b
    BY <2>2 DEF HandlesInv
  <2>11. \A k \in Handles : bound'[k] \notin Gone <=> Pooled(k)' \/ InUse(k)'
    BY <2>1, <2>5, <2>7 DEF HandlesInv
  <2>12. \A k \in Handles : ~(Pooled(k)' /\ InUse(k)')
    BY <2>5, <2>7 DEF HandlesInv
  <2> QED BY <1>t, <2>8, <2>9, <2>10, <2>11, <2>12 DEF HandlesInv
<1>4. ASSUME NEW t \in Txns, EndTxn(t) PROVE HandlesInv'
  <2>1. bound' = [h \in Handles |-> IF bound[h] = t THEN "unbound" ELSE bound[h]]
        /\ cursor' = cursor /\ handles_pool_' = handles_pool_
    BY <1>4, <1>t DEF EndTxn, HandleTypes
  <2>2. bound' \in [Handles -> Gone \cup {"unbound"} \cup Txns] /\ \A h \in Handles : bound'[h] \in Gone <=> bound[h] \in Gone
    BY <1>t, <2>1, HandleFacts DEF HandleTypes
  <2>3. \A h : (InUse(h)' <=> InUse(h)) /\ (Pooled(h)' <=> Pooled(h))
    BY <2>1 DEF InUse, Pooled
  <2>4. HandleTypes'
    BY <1>t, <2>1, <2>2 DEF HandleTypes
  <2> QED BY <1>t, <2>1, <2>2, <2>3, <2>4 DEF HandlesInv
<1> QED BY <1>1, <1>2, <1>3, <1>4

\* However cursors are opened, moved, rebound, closed and destroyed and transactions end, a handle is in one
\* place only and never used after it was closed (mdbx.cpp 221-260, object_pool.hpp).
THEOREM HandlesStayUnshared == DatabaseSpec => []HandlesUnshared
<1>1. NoDatabase => HandlesInv
  <2> SUFFICES ASSUME NoCursors PROVE HandlesInv
    BY DEF NoDatabase
  <2>1. HandleTypes
    BY DEF NoCursors, HandleTypes, Handles, Gone
  <2>2. \A h \in Handles : ~Pooled(h) /\ ~InUse(h) /\ bound[h] \in Gone
    BY HandleFacts DEF NoCursors, Pooled, InUse, Gone, Handles
  <2>3. /\ \A c, d \in Cursors : cursor[c] = cursor[d] /\ cursor[c] # 0 => c = d
        /\ \A i, j \in DOMAIN handles_pool_ : handles_pool_[i] = handles_pool_[j] => i = j
    BY DEF NoCursors
  <2> QED BY <2>1, <2>2, <2>3 DEF HandlesInv
<1>2. HandlesInv /\ [StagesNext \/ CursorsNext]_databaseVars => HandlesInv'
  <2> SUFFICES ASSUME HandlesInv, [StagesNext \/ CursorsNext]_databaseVars PROVE HandlesInv'
    OBVIOUS
  <2>1. CASE CursorsNext
    BY <2>1, OpenStep, RebindStep, OtherCursorSteps DEF CursorsNext
  <2>2. CASE UNCHANGED cursorVars
    BY <2>2 DEF HandlesInv, HandleTypes, Pooled, InUse, cursorVars, Handles, Gone, Txns
  <2>3. CASE StagesNext \/ UNCHANGED databaseVars
    BY <2>2, <2>3 DEF StagesNext, databaseVars, cursorVars
  <2> QED BY <2>1, <2>3
<1> QED BY <1>1, <1>2, HandlesInvShows, PTL DEF DatabaseSpec

\* Both of what the database layer promises to its callers.
THEOREM DatabaseStaysSafe == DatabaseSpec => DatabaseSafe
BY StagesStayAtomic, HandlesStayUnshared, PTL DEF DatabaseSafe
=============================================================================
