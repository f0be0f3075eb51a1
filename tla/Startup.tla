------------------------------ MODULE Startup ------------------------------
(***************************************************************************)
(* The node program from its launch to its end: the preparation of the     *)
(* chaindata database, the certificate and key of the TLS server, the      *)
(* files of zero-knowledge parameters, the main loop and the signals that  *)
(* end it.  What is on disk outlives the process, which may be killed      *)
(* between any two of these steps and launched again.                      *)
(*                                                                         *)
(* Everything the environment does against the program (a kill, a signal,  *)
(* a failed write or download, a refusal of the user, a wrong option)      *)
(* takes one of a number of faults.                                        *)
(***************************************************************************)
EXTENDS Integers, FiniteSets, Sequences

CONSTANTS Networks,       \* identifiers of the known chains
          Unknown,        \* an identifier lookup_known_chain does not find
          Home,           \* the network the operator means to join
          PageSizes,      \* --chaindata.pagesize
          HomePage,
          kParamFiles,    \* the files, in order
          kPanicSignals,  \* 10, the signal that aborts
          MaxFaults

ASSUME StartupAssumption ==
    /\ Home \in Networks /\ Unknown \notin Networks /\ 0 \notin Networks
    /\ PageSizes \subseteq Nat \ {0} /\ HomePage \in PageSizes
    /\ kParamFiles \in Seq({kParamFiles[i] : i \in DOMAIN kParamFiles})
    /\ {kPanicSignals, MaxFaults} \subseteq Nat

VARIABLES chaindata,  \* [page, schema, config]: page 0: no file; schema -1: no record; config 0: none
          certificate, key,  \* Missing, Broken or the number of the key pair the file belongs to
          params,     \* [file -> "missing" | "foreign" | "short" | "corrupt" | "good"]
          settings,   \* of this run of the process
          pc,
          index,      \* position in kParamFiles or in errored
          errored,    \* errored_param_files
          sig_count,
          pairs,      \* key pairs generated so far
          faults

disk == <<chaindata, certificate, key, params>>
startupVars == <<chaindata, certificate, key, params, settings, pc, index, errored, sig_count, pairs, faults>>

kRequiredSchemaVersion == 1

Missing == 0
Broken == -1
NoFile == [page |-> 0, schema |-> -1, config |-> 0]
NoSettings == [network |-> Home, page |-> HomePage, use_tls |-> FALSE, no_checksums |-> FALSE]
Files == {kParamFiles[i] : i \in DOMAIN kParamFiles}
Sizes == [file \in Files |-> "missing"]

\* The program is not there: the part of a composition that does not run.
NoStartup ==
    /\ chaindata = NoFile /\ certificate = Missing /\ key = Missing /\ params = Sizes
    /\ settings = NoSettings /\ pc = "absent" /\ index = 1 /\ errored = <<>>
    /\ sig_count = 0 /\ pairs = 0 /\ faults = 0

\* An empty data directory, or one that holds the database of an older
\* program and parameter files from elsewhere.
InitStartup ==
    /\ chaindata \in {NoFile, [page |-> HomePage, schema |-> 0, config |-> Home]}
    /\ certificate = Missing /\ key = Missing
    /\ params \in [Files -> {"missing", "foreign", "corrupt"}]
    /\ settings = NoSettings /\ pc = "down" /\ index = 1 /\ errored = <<>>
    /\ sig_count = 0 /\ pairs = 0 /\ faults = 0

signalled == sig_count > 0

\* A step with n faults.
Fault(n) == faults + n <= MaxFaults /\ faults' = faults + n

GoTo(where) == pc' = where /\ UNCHANGED <<settings, sig_count>>

\* An exception reaches main, which returns an error code.
Exit == pc' = "down" /\ index' = 1 /\ errored' = <<>> /\ sig_count' = 0 /\ UNCHANGED settings

kept == <<certificate, key, params, index, errored, pairs>>

-----------------------------------------------------------------------------
(* Launch and the chaindata database.                                      *)

parse_node_command_line(network, page, tls, unchecked) ==
    /\ pc = "down"
    /\ Fault((IF network = Home THEN 0 ELSE 1) + (IF page = HomePage THEN 0 ELSE 1))
    /\ settings' = [network |-> network, page |-> page, use_tls |-> tls, no_checksums |-> unchecked]
    /\ pc' = "open"
    /\ UNCHANGED <<disk, index, errored, sig_count, pairs>>

\* open_env: the file is created when there is none, with the page size
\* asked for; that of an existing one must match.
open_env ==
    /\ pc = "open"
    /\ IF chaindata.page \in {0, settings.page}
           THEN chaindata' = [chaindata EXCEPT !.page = settings.page] /\ GoTo("schema") /\ UNCHANGED <<index, errored>>
           ELSE Exit /\ UNCHANGED chaindata
    /\ UNCHANGED <<certificate, key, params, pairs, faults>>

\* Nothing was ever committed to the file.
is_pristine == chaindata.schema = -1 /\ chaindata.config = 0

\* Mutant of deployed: the tables are committed before the version.
deployed_unversioned == [chaindata EXCEPT !.config = -1]

\* Tables and schema version, in one transaction.
deployed == [chaindata EXCEPT !.schema = kRequiredSchemaVersion]

DeployTables ==
    /\ pc = "schema" /\ is_pristine
    /\ chaindata' = deployed
    /\ GoTo("config")
    /\ UNCHANGED <<kept, faults>>

CheckSchema ==
    /\ pc = "schema" /\ ~is_pristine
    /\ IF chaindata.schema >= kRequiredSchemaVersion THEN GoTo("config") /\ UNCHANGED <<index, errored>> ELSE Exit
    /\ UNCHANGED <<disk, pairs, faults>>

WriteChainConfig ==
    /\ pc = "config" /\ chaindata.config \notin Networks
    /\ IF settings.network \in Networks
           THEN chaindata' = [chaindata EXCEPT !.config = settings.network] /\ GoTo("config") /\ UNCHANGED <<index, errored>>
           ELSE Exit /\ UNCHANGED chaindata
    /\ UNCHANGED <<certificate, key, params, pairs, faults>>

same_chain == chaindata.config = settings.network

\* The check of the chain, and the second open_env of main, not exclusive.
CheckChain ==
    /\ pc = "config" /\ chaindata.config \in Networks
    /\ IF same_chain THEN GoTo("time") /\ UNCHANGED <<index, errored>> ELSE Exit
    /\ UNCHANGED <<disk, pairs, faults>>

CheckTime ==
    /\ pc = "time"
    /\ \/ GoTo(IF settings.use_tls THEN "tls" ELSE "params") /\ UNCHANGED <<index, errored, faults>>
       \/ Fault(1) /\ Exit
    /\ UNCHANGED <<disk, pairs>>

-----------------------------------------------------------------------------
(* validate_tls_requirements.                                              *)

\* Both files can be read, and the certificate is of the key.
validate_server_certificate == certificate = key /\ certificate \notin {Missing, Broken}

ValidateTls ==
    /\ pc = "tls"
    /\ IF validate_server_certificate
           THEN \/ GoTo("params") /\ UNCHANGED faults
                \/ Fault(1) /\ GoTo("ask_tls")     \* expired
           ELSE GoTo("ask_tls") /\ UNCHANGED faults
    /\ UNCHANGED <<disk, index, errored, pairs>>

AskTls ==
    /\ pc = "ask_tls"
    /\ \/ GoTo("remove_certificate") /\ UNCHANGED <<index, errored, faults>>
       \/ Fault(1) /\ Exit
    /\ UNCHANGED <<disk, pairs>>

RemoveCertificate ==
    pc = "remove_certificate" /\ certificate' = Missing /\ GoTo("remove_key")
    /\ UNCHANGED <<chaindata, key, params, index, errored, pairs, faults>>

RemoveKey ==
    pc = "remove_key" /\ key' = Missing /\ GoTo("store_certificate")
    /\ UNCHANGED <<chaindata, certificate, params, index, errored, pairs, faults>>

\* A new pair is generated, then its certificate stored, then its key; a
\* file that cannot be written in full is left as it is.
store_x509_certificate ==
    /\ pc = "store_certificate"
    /\ pairs' = pairs + 1
    /\ \/ certificate' = pairs + 1 /\ GoTo("store_key") /\ UNCHANGED <<index, errored, faults>>
       \/ Fault(1) /\ certificate' \in {Missing, Broken} /\ Exit
    /\ UNCHANGED <<chaindata, key, params>>

store_rsa_key_pair ==
    /\ pc = "store_key"
    /\ \/ key' = pairs /\ GoTo("params") /\ UNCHANGED <<index, errored, faults>>
       \/ Fault(1) /\ key' \in {Missing, Broken} /\ Exit
    /\ UNCHANGED <<chaindata, certificate, params, pairs>>

-----------------------------------------------------------------------------
(* validate_param_files: one look at every file, then the downloads.       *)

file == kParamFiles[index]

\* Whether a file passes the first look; a wrong one is removed.
accepted == params[file] = "good" \/ (params[file] = "corrupt" /\ settings.no_checksums)

CheckParam ==
    /\ pc = "params" /\ index <= Len(kParamFiles)
    /\ IF signalled \/ params[file] = "foreign" THEN Exit /\ UNCHANGED <<params, faults>>
       ELSE \/ /\ params' = IF accepted THEN params ELSE [params EXCEPT ![file] = "missing"]
               /\ errored' = IF accepted THEN errored ELSE Append(errored, file)
               /\ index' = index + 1
               /\ GoTo("params")
               /\ UNCHANGED faults
            \/ params[file] # "missing" /\ ~accepted /\ Fault(1) /\ Exit /\ UNCHANGED params   \* not removed
    /\ UNCHANGED <<chaindata, certificate, key, pairs>>

AskDownload ==
    /\ pc = "params" /\ index > Len(kParamFiles)
    /\ index' = 1
    /\ IF errored = <<>> THEN GoTo("hub") /\ UNCHANGED <<errored, faults>>
       ELSE \/ GoTo("download") /\ UNCHANGED <<errored, faults>>
            \/ Fault(1) /\ pc' = "down" /\ errored' = <<>> /\ sig_count' = 0 /\ UNCHANGED settings
    /\ UNCHANGED <<disk, pairs>>

\* Mutant of passes: the downloaded file is not checked again.
passes_unchecked(content) == TRUE

\* Size and checksum of the downloaded file, checked again.
passes(content) == content = "good"

\* The file is truncated when it is opened and filled as the answer comes.
\* A download fails before that, or after it with whatever was written; a
\* wrong file stays where it is.
download_param_file ==
    /\ pc = "download"
    /\ IF signalled THEN Exit /\ UNCHANGED <<params, faults>>
       ELSE \E content \in {"missing", "short", "corrupt", "good"}, complete \in BOOLEAN :
                /\ content = "missing" => ~complete
                /\ params' = [params EXCEPT ![errored[index]] = content]
                /\ IF complete /\ content = "good" THEN UNCHANGED faults ELSE Fault(1)
                /\ IF ~complete \/ ~passes(content) THEN Exit
                   ELSE IF index = Len(errored)
                       THEN GoTo("hub") /\ index' = 1 /\ errored' = <<>>
                       ELSE GoTo("download") /\ index' = index + 1 /\ UNCHANGED errored
    /\ UNCHANGED <<chaindata, certificate, key, pairs>>

-----------------------------------------------------------------------------
(* The hub runs.                                                           *)

\* Whether start succeeds is not looked at.
StartHub == pc = "hub" /\ GoTo("running") /\ UNCHANGED <<disk, index, errored, pairs, faults>>

\* A signal, or five minutes without a connection.
LeaveLoop ==
    /\ pc = "running"
    /\ \/ signalled /\ UNCHANGED faults
       \/ ~signalled /\ Fault(1)
    /\ GoTo("stopping")
    /\ UNCHANGED <<disk, index, errored, pairs>>

\* NodeHub::stop, then the database is closed.
StopHub == pc = "stopping" /\ Exit /\ UNCHANGED <<disk, pairs, faults>>

Running == pc \notin {"down", "absent"}

\* Signals::handle; the last one aborts.
handle ==
    /\ Running /\ Fault(1)
    /\ IF sig_count + 1 >= kPanicSignals
           THEN Exit
           ELSE sig_count' = sig_count + 1 /\ UNCHANGED <<pc, settings, index, errored>>
    /\ UNCHANGED <<disk, pairs>>

\* The process is killed; a file being written is left broken.
Kill ==
    /\ Running /\ Fault(1)
    /\ certificate' \in IF pc = "store_certificate" THEN {certificate, Broken} ELSE {certificate}
    /\ key' \in IF pc = "store_key" THEN {key, Broken} ELSE {key}
    /\ params' \in {params} \cup IF pc = "download" THEN {[params EXCEPT ![errored[index]] = "short"]} ELSE {}
    /\ Exit
    /\ UNCHANGED <<chaindata, pairs>>

-----------------------------------------------------------------------------
Launch ==
    \E network \in Networks \cup {Unknown}, page \in PageSizes, tls, unchecked \in BOOLEAN :
        parse_node_command_line(network, page, tls, unchecked)

StartupProceeds ==
    \/ Launch
    \/ open_env
    \/ DeployTables
    \/ CheckSchema
    \/ WriteChainConfig
    \/ CheckChain
    \/ CheckTime
    \/ ValidateTls
    \/ AskTls
    \/ RemoveCertificate
    \/ RemoveKey
    \/ store_x509_certificate
    \/ store_rsa_key_pair
    \/ CheckParam
    \/ AskDownload
    \/ download_param_file
    \/ StartHub
    \/ LeaveLoop
    \/ StopHub

StartupNext == StartupProceeds \/ handle \/ Kill

StartupSpec == InitStartup /\ [][StartupNext]_startupVars

-----------------------------------------------------------------------------
(* Properties.                                                             *)

\* The node never runs on anything but a database of its schema and its
\* chain, a key with its own certificate, and parameter files whose checksum
\* was verified (or whose size was, when asked not to), whatever an earlier
\* run that failed or was killed left behind (node.cpp 44-104, secure.cpp
\* 371-434, params.cpp 62-160).
RunsPrepared ==
    pc \in {"hub", "running", "stopping"} =>
        /\ chaindata = [page |-> settings.page, schema |-> kRequiredSchemaVersion, config |-> settings.network]
        /\ settings.use_tls => certificate = key /\ key \notin {Missing, Broken}
        /\ \A f \in Files : params[f] = "good" \/ (settings.no_checksums /\ params[f] = "corrupt")

\* The data directory is not one this node can use.
Hopeless ==
    \/ chaindata.page \in PageSizes \ {HomePage}
    \/ chaindata.config \in Networks \ {Home}
    \/ chaindata.schema = 0
    \/ \E f \in Files : params[f] = "foreign"

\* Once the environment stops interfering, launching the node again always
\* ends with a running node: no failure or kill leaves the data directory in
\* a state the program cannot get out of, unless the directory was made
\* with another page size, for another chain, or by an older program, or
\* something that is not a file stands in a parameter file's place.
RestartRecovers ==
    pc # "absent" => <>[](pc = "running" \/ Hopeless)
=============================================================================
