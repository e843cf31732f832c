---------------------------- MODULE Configuration ----------------------------
(***************************************************************************)
(* From the configuration files to an application that is ready: Load      *)
(* makes credential files private, fills in defaults and validates;        *)
(* Resolve asks the providers of remote storages, after which everything   *)
(* is validated again; Open then builds stores, exporters and channels.    *)
(*                                                                         *)
(* A value is told apart only by what a rule or its use tells apart.       *)
(* Storages, channels and files have their names as keys.                  *)
(***************************************************************************)
EXTENDS Naturals, Integers, Sequences

CONSTANTS
    SafeName,       \* names that match SafeName
    Candidate,      \* configurations that the files may hold
    Response        \* what a provider may answer: the fields of a storage

ASSUME ConfigurationAssumption ==
    \A c \in Candidate :
        /\ {"storages", "sites", "channels", "routes"} \subseteq DOMAIN c
        /\ \A n \in DOMAIN c.storages : "source" \in DOMAIN c.storages[n]

VARIABLES
    config,         \* what the files hold
    modes,          \* modes[f]: "private", "open", "symlink" or "unreadable"
    stage,          \* how far the process got
    handle,         \* TRUE while it holds the history database open
    active,         \* the configuration in memory
    resolving       \* remote storages not yet resolved

configVars == <<config, modes, stage, handle, active, resolving>>

Stages == {"closed", "resolve", "database", "ready"}
NoConfig == [sites |-> <<>>]
SchemaVersion == 2

-----------------------------------------------------------------------------
(* Validation.                                                             *)

Credentials == {"bucket", "access_key_id", "secret_access_key"}

\* An absolute URL without user information or fragment: HTTPS, or HTTP to
\* this host.
SafeUrl(u) == u \in {"https", "loopback"}

\* "safe" is relative and clean.
PrefixOK(p) == p \in {"", "safe"}

Remote(st) == st.source = "remote"
NoCredentialSource(st) == st.source = "" /\ st.url = ""

LocalStorageOK(st) ==
    /\ st.directory = "absolute"
    /\ st.present = {} /\ st.region = "" /\ st.endpoint = "" /\ st.prefix = ""
    /\ NoCredentialSource(st)

\* What the provider will give is not given here.
RemoteOK(st) ==
    /\ Remote(st) /\ SafeUrl(st.url)
    /\ st.present = {} /\ st.region = "" /\ st.endpoint = ""

S3StorageOK(st) ==
    /\ st.directory = "" /\ PrefixOK(st.prefix)
    /\ \/ RemoteOK(st)
       \/ /\ NoCredentialSource(st)
          /\ st.present = Credentials /\ st.region # ""
          /\ st.endpoint = "" \/ SafeUrl(st.endpoint)

R2StorageOK(st) ==
    /\ st.directory = "" /\ PrefixOK(st.prefix)
    /\ \/ RemoteOK(st)
       \/ /\ NoCredentialSource(st)
          /\ st.present = Credentials /\ st.region = "auto"
          /\ st.endpoint = "https"

StorageOK(name, st) ==
    /\ name \in SafeName
    /\ \/ st.type = "local" /\ LocalStorageOK(st)
       \/ st.type = "s3" /\ S3StorageOK(st)
       \/ st.type = "r2" /\ R2StorageOK(st)

Primaries(storages) == {n \in DOMAIN storages : storages[n].primary}

StoragesOK(storages) ==
    /\ DOMAIN storages # {}
    /\ \A m, n \in Primaries(storages) : m = n
    /\ \A n \in DOMAIN storages : StorageOK(n, storages[n])

\* "complete": host, port, database, user name and password.
DatabaseOK(db) ==
    /\ db.name \in SafeName
    /\ db.engine \in {"mysql", "postgres"}
    /\ db.auto_repair => db.engine = "mysql"
    /\ db.complete

Enabled(seq) == {i \in DOMAIN seq : seq[i].enabled}

DistinctNames(seq, among) == \A i, j \in among : seq[i].name = seq[j].name => i = j

\* A site that is disabled only has to have a name.
SiteOK(site, storages) ==
    /\ site.version = SchemaVersion
    /\ site.name \in SafeName
    /\ site.enabled =>
         /\ site.mode \in {"", "full", "incremental"}
         /\ site.mode = "incremental" => site.password
         /\ site.include # {} /\ site.include \subseteq {"absolute"}
         /\ site.exclude \subseteq {"pattern"}
         /\ \A i \in Enabled(site.databases) : DatabaseOK(site.databases[i])
         /\ DistinctNames(site.databases, Enabled(site.databases))
         /\ site.destinations # <<>>
         /\ \A i \in DOMAIN site.destinations : site.destinations[i] \in DOMAIN storages
         /\ site.minimum_interval > 0 /\ site.keep_last >= 1

SitesOK(c) ==
    /\ DistinctNames(c.sites, DOMAIN c.sites)
    /\ \A i \in DOMAIN c.sites : SiteOK(c.sites[i], c.storages)

SmtpFields == {"host", "port", "username", "password", "from", "to"}

\* The fields a channel has say what it is not.
ChannelOK(name, ch) ==
    /\ name \in SafeName
    /\ \/ /\ ch.type = "smtp"
          /\ SmtpFields \ {"username", "password"} \subseteq ch.present
          /\ "username" \in ch.present <=> "password" \in ch.present
          /\ ch.present \subseteq SmtpFields
       \/ ch.type = "webhook" /\ ch.present = {"url"} /\ SafeUrl(ch.url)
       \/ ch.type = "discord" /\ ch.present = {"webhook_url"} /\ SafeUrl(ch.url)

Events == {"all", "backup_failed", "backup_partial", "backup_cancelled", "backup_skipped",
           "backup_no_change", "backup_succeeded", "daily_report", "monthly_report"}

NotificationsOK(c) ==
    \/ DOMAIN c.channels = {} /\ c.routes = {}
    \/ /\ DOMAIN c.channels # {} /\ c.routes # {}
       /\ \A n \in DOMAIN c.channels : ChannelOK(n, c.channels[n])
       /\ \A r \in c.routes :
             /\ r.events # {} /\ r.events \subseteq Events
             /\ r.channels \subseteq DOMAIN c.channels

\* A report has a timezone and a time, and its route exists; nobody asks
\* whether the route has channels.
ReportOK(rep, routes) ==
    rep.enabled => rep.scheduled /\ \E r \in routes : r.name = rep.route

\* Validate.  "app": the directories are set, the log level is known; "prefix":
\* server_id and backup_prefix are safe.
Valid(c) ==
    /\ c.version = SchemaVersion /\ c.app /\ c.prefix
    /\ StoragesOK(c.storages)
    /\ SitesOK(c)
    /\ NotificationsOK(c)
    /\ \A k \in DOMAIN c.reports : ReportOK(c.reports[k], c.routes)

-----------------------------------------------------------------------------
(* Loading.                                                                *)

\* The credential files, in the order they are read: the root, the storages,
\* the sites by name.  Credentials of a storage are any but a bucket's name.
HoldsCredentials(c, f) ==
    CASE f = "root" ->
            \E n \in DOMAIN c.channels :
                c.channels[n].present \cap {"username", "password", "url", "webhook_url"} # {}
      [] f = "storages" ->
            \E n \in DOMAIN c.storages :
                \/ c.storages[n].present \cap {"access_key_id", "secret_access_key"} # {}
                \/ c.storages[n].url # ""
      [] OTHER ->
            \E i \in DOMAIN c.sites :
                /\ c.sites[i].name = f
                /\ \/ c.sites[i].password
                   \/ \E j \in DOMAIN c.sites[i].databases : c.sites[i].databases[j].complete

Files(c) == <<"root", "storages">> \o [i \in DOMAIN c.sites |-> c.sites[i].name]

Unusable(c, f) ==
    \/ modes[f] = "unreadable"
    \/ modes[f] = "symlink" /\ HoldsCredentials(c, f)

\* The files before the first that is unusable.
ReadFiles(c) ==
    {Files(c)[i] : i \in {j \in DOMAIN Files(c) :
                            \A k \in 1..j : ~Unusable(c, Files(c)[k])}}

AllRead(c) == \A i \in DOMAIN Files(c) : Files(c)[i] \in ReadFiles(c)

\* tightenCredentialFile on each file that is read.
TightenFiles(c) ==
    modes' = [f \in DOMAIN modes |->
                IF f \in ReadFiles(c) /\ HoldsCredentials(c, f) THEN "private" ELSE modes[f]]

\* The region of r2, the interval, keep_last, and the primary storage where a
\* site names none.
WithDefaults(c) ==
    LET region(st) == IF st.type = "r2" /\ st.region = "" /\ ~Remote(st)
                      THEN [st EXCEPT !.region = "auto"] ELSE st
        primary == Primaries(c.storages)
        site(s) ==
            [s EXCEPT !.minimum_interval = IF @ = 0 THEN 24 ELSE @,
                      !.keep_last = IF @ = 0 THEN 7 ELSE @,
                      !.destinations =
                         IF s.enabled /\ @ = <<>> /\ \E p \in primary : primary = {p}
                         THEN <<CHOOSE p \in primary : TRUE>> ELSE @]
    IN  [c EXCEPT !.storages = [n \in DOMAIN @ |-> region(@[n])],
                  !.sites = [i \in DOMAIN @ |-> site(@[i])]]

ConfigInit ==
    /\ config \in Candidate
    /\ modes \in [{Files(config)[i] : i \in DOMAIN Files(config)} -> {"private"}]
    /\ stage = "closed" /\ handle = FALSE /\ active = NoConfig /\ resolving = {}

\* Somebody changes a file's mode or replaces it.
ChangeMode(f, mode) ==
    /\ stage = "closed" /\ modes[f] # mode
    /\ modes' = [modes EXCEPT ![f] = mode]
    /\ UNCHANGED <<config, stage, handle, active, resolving>>

Refuse ==
    /\ stage' = "closed" /\ handle' = FALSE /\ active' = NoConfig /\ resolving' = {}
    /\ UNCHANGED config

Load ==
    /\ stage = "closed"
    /\ TightenFiles(config)
    /\ LET c == WithDefaults(config)
       IN  IF AllRead(config) /\ Valid(c)
           THEN /\ active' = c /\ stage' = "resolve"
                /\ resolving' = {n \in DOMAIN c.storages : Remote(c.storages[n])}
                /\ UNCHANGED <<config, handle>>
           ELSE Refuse

\* FixCredentialFilePermissions.
FixPermissions ==
    /\ stage = "closed"
    /\ TightenFiles(config)
    /\ UNCHANGED <<config, stage, handle, active, resolving>>

-----------------------------------------------------------------------------
(* Opening.                                                                *)

\* One provider answers; the storage is no longer remote.
Resolve(n, response) ==
    /\ stage = "resolve" /\ n \in resolving
    /\ active' = [active EXCEPT !.storages[n] =
                    [@ EXCEPT !.present = response.present, !.endpoint = response.endpoint,
                              !.region = response.region, !.source = "", !.url = ""]]
    /\ resolving' = resolving \ {n}
    /\ UNCHANGED <<config, modes, stage, handle>>

\* It cannot be reached, answers an error, too much, or something else; or the
\* command is cancelled.
ResolveFails ==
    /\ stage = "resolve" /\ resolving # {}
    /\ Refuse /\ UNCHANGED modes

\* (Mutant of Revalidate: what the providers gave is believed.)
Believe ==
    /\ stage = "resolve" /\ resolving = {}
    /\ stage' = "database" /\ handle' = TRUE
    /\ UNCHANGED <<config, modes, active, resolving>>

\* The whole configuration is validated again before the database is opened.
Revalidate ==
    /\ stage = "resolve" /\ resolving = {}
    /\ IF Valid(active)
       THEN /\ stage' = "database" /\ handle' = TRUE
            /\ UNCHANGED <<config, active, resolving>>
       ELSE Refuse
    /\ UNCHANGED modes

\* The migration, a store, a dump program or the log is not to be had.
OpenFails ==
    /\ stage = "database"
    /\ Refuse /\ UNCHANGED modes

OpenReady ==
    /\ stage = "database"
    /\ stage' = "ready"
    /\ UNCHANGED <<config, modes, handle, active, resolving>>

\* The command ends.
Close ==
    /\ stage = "ready"
    /\ Refuse /\ UNCHANGED modes

ConfigSteps ==
    \/ Load \/ FixPermissions \/ Revalidate
    \/ \E n \in resolving, response \in Response : Resolve(n, response)

ConfigFaults ==
    \/ ResolveFails \/ OpenFails
    \/ \E f \in DOMAIN modes, mode \in {"open", "symlink", "unreadable"} : ChangeMode(f, mode)

\* The process is killed.
Die ==
    /\ stage # "closed"
    /\ Refuse /\ UNCHANGED modes

ConfigNext == ConfigSteps \/ ConfigFaults \/ OpenReady \/ Close \/ Die

ConfigSpec == ConfigInit /\ [][ConfigNext]_configVars

-----------------------------------------------------------------------------
(* What is built.                                                          *)

EnabledSites == {active.sites[i] : i \in Enabled(active.sites)}
EnabledSources(site) == {site.databases[i] : i \in Enabled(site.databases)}

\* buildStores, buildDatabaseExporters, buildDatabaseMaintainers,
\* buildNotificationChannels.
Stores == {n \in DOMAIN active.storages : active.storages[n].type \in {"local", "s3", "r2"}}
Exporters == {db.engine : db \in UNION {EnabledSources(s) : s \in EnabledSites}}
Maintainers == Exporters \cap {"mysql"}
Deliverers == {n \in DOMAIN active.channels :
                 active.channels[n].type \in {"smtp", "webhook", "discord"}}

\* A ready application lacks nothing its commands reach for: each enabled site
\* has destinations whose stores know where and with which keys to write, one
\* exporter, and if asked one maintainer, for each database, and no two packages
\* of one name; every route and report finds its channels, and the credentials
\* in the files are private.  One that does not get ready leaves no database
\* open.
OpenedIsUsable ==
    /\ stage = "ready" =>
        /\ \A site \in EnabledSites :
              /\ site.destinations # <<>>
              /\ \A i \in DOMAIN site.destinations :
                    LET st == active.storages[site.destinations[i]]
                    IN  /\ site.destinations[i] \in Stores
                        /\ ~Remote(st)
                        /\ IF st.type = "local" THEN st.directory = "absolute"
                           ELSE st.present = Credentials /\ st.region # ""
              /\ \A db \in EnabledSources(site) :
                    /\ db.engine \in Exporters \cap {"mysql", "postgres"}
                    /\ db.auto_repair => db.engine \in Maintainers
              /\ DistinctNames(site.databases, Enabled(site.databases))
              /\ site.mode = "incremental" => site.password
              /\ site.keep_last >= 1 /\ site.minimum_interval > 0
        /\ \A r \in active.routes : r.channels \subseteq Deliverers
        /\ \A k \in DOMAIN active.reports :
              active.reports[k].enabled =>
                  \E r \in active.routes : r.name = active.reports[k].route
        /\ \A f \in DOMAIN modes : HoldsCredentials(config, f) => modes[f] = "private"
    /\ stage = "closed" => ~handle
=============================================================================
