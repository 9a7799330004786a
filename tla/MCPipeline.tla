----------------------------- MODULE MCPipeline -----------------------------
(* The shipped configuration, others that hook the remaining dissectors,    *)
(* and short files with directives in any order.                            *)
EXTENDS Pipeline

Load(m) == [dir |-> "LoadModule", mod |-> m]
Loads(ms) == [i \in DOMAIN ms |-> Load(ms[i])]
DISSECT(m, source, key) == [dir |-> "DISSECT", mod |-> m, source |-> source, key |-> key]
AddHook(source) == [dir |-> "AddHook", source |-> source]
HookSection(source, key, vmods) == [dir |-> "hook", source |-> source, key |-> key, vmods |-> vmods]
Vmod(name, id, fields) == [name |-> name, matches |-> << [id |-> id, fields |-> fields] >>]

MCVMods == {"sshd", "crond"}
User == [name |-> "user", type |-> "str"]
Addr == [name |-> "src", type |-> "ip4"]
Port == [name |-> "port", type |-> "int"]

Dist == Loads(<<"textfile", "udp", "syslog", "auditd", "snmptrap", "generic">>)
        \o << HookSection("syslog", "sshd", << Vmod("sshd", "login", << User, Addr >>) >>),
              HookSection("syslog", "CROND", << Vmod("crond", "cmd", << User >>) >>),
              HookSection("syslog", "crond", << Vmod("crond", "end", << Port, User >>) >>),
              DISSECT("syslog", "textfile", "/var/log/messages"), DISSECT("syslog", "udp", "514"),
              DISSECT("auditd", "textfile", "/var/run/audispd_events") >>
Sockets == Loads(<<"textfile", "udp", "sockunix", "syslog", "netfilter", "snare", "rawsnare">>)
           \o << AddHook("syslog"), DISSECT("syslog", "sockunix", "/dev/log"),
                 DISSECT("snare", "udp", "6161"), DISSECT("rawsnare", "udp", "6262"),
                 DISSECT("netfilter", "udp", "514") >>
Links == Loads(<<"pcap", "prism2", "wifi">>)

\* Virtual modules that several sections use, next to each other and alone.
Shared == {Loads(<<"textfile", "syslog", "generic">>)
           \o << HookSection("syslog", "sshd", << Vmod("sshd", "login", << User, Addr >>), Vmod("crond", "cmd", << User >>) >>),
                 HookSection("syslog", "crond", last),
                 DISSECT("syslog", "textfile", "/var/log/messages") >> :
           last \in {<< Vmod("crond", "end", << Port >>) >>, << Vmod("sshd", "cmd", << Port >>) >>,
                     << Vmod("crond", "end", << Port >>), Vmod("sshd", "login", << >>) >>}}

\* Directives whose order decides whether the program starts.
Some == {Load("udp"), Load("snmptrap"), Load("netfilter"), Load("generic"), Load("textfile"),
         AddHook("udp"), DISSECT("netfilter", "udp", "162"),
         HookSection("udp", "162", << Vmod("sshd", "login", << User >>), Vmod("crond", "cmd", << Port >>) >>),
         HookSection("nothing", "x", << >>)}
Distinct(n) == {s \in SeqOf(Some, n) : Cardinality(ToSet(s)) = Len(s)}

\* 3 directives in any order, 2 behind the modules they need, and lists of
\* modules that do not load.
MCConfigs == {Dist, Sockets, Links} \cup Shared \cup Distinct(3)
             \cup {Loads(<<"udp", "textfile", "netfilter">>) \o s : s \in Distinct(2)}
             \cup {Loads(<<"udp", "generic">>) \o << HookSection("udp", "x", << Vmod("udp", "cmd", << >>) >>) >>,
                   Loads(<<"textfile", "prism2", "pcap">>), Loads(<<"textfile", "textfile">>),
                   Loads(<<"textfile", "udp", "sockunix", "syslog", "pcap", "prism2", "wifi", "auditd", "snmptrap">>)}

Texts == [fmt : {"text"}, hits : {{}, {"login"}, {"cmd"}, {"login", "cmd", "end"}}, badip : BOOLEAN]
Syslogs == SyslogLine({"none", "ok", "big"}, {"none", "bad", "Jan", "Aug", "Apr"}, BOOLEAN, Rests, {"kernel"}, {NoText})
           \cup SyslogLine({"none"}, {"none"}, {FALSE}, {"prog_msg"}, {"sshd", "CROND", "crond", "kernel"},
                           Texts)
OneLine == CHOOSE s \in Syslogs : s.rest = "prog_msg"
MCSources(m) ==
  CASE m = "textfile" -> {"/var/log/messages", "/var/run/audispd_events", "/tmp/x"}
    [] m = "udp" -> {"514", "162", "6161", "6262"}
    [] m = "sockunix" -> {"/dev/log"}
    [] m = "pcap" -> {"PRISM_HEADER", "EN10MB"}
    [] m = "wifi" -> {"wlan0"}
MCMessages(from) ==
  CASE from = "/var/log/messages" -> Syslogs
    [] from = "/var/run/audispd_events" -> AuditLine
    [] from = "/dev/log" -> SyslogLine({"ok"}, {"Aug"}, {TRUE}, Rests, {"kernel"}, NetfilterLine)
    [] from = "162" -> SnmpPacket
    [] from = "6161" -> SnareLine
    [] from = "6262" -> RawsnareRecord
    [] from \in {"PRISM_HEADER", "EN10MB"} -> PrismFrame
    [] from = "wlan0" -> WifiFrame
    [] OTHER -> {OneLine}

PipeSpec == PipeInit /\ [][PipeNext]_pipeVars
=============================================================================
