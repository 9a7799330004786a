----------------------------- MODULE Dissectors -----------------------------
(***************************************************************************)
(* The input and dissection modules of src/modules, as far as the core     *)
(* sees them: which attributes a message yields, in which slots of the     *)
(* module's field table, whether the dissector posts the event (and        *)
(* returns 0) or gives up, and what it then frees.  A message is a record  *)
(* of the facts that the branches of its dissector test.                   *)
(***************************************************************************)
EXTENDS Integers, SequencesExt

(* The field tables, in the order of the F_ constants.                     *)
textfile_fields == <<"line_num", "file", "line">>
udp_fields == <<"event", "time", "src_addr", "src_port", "dst_addr", "dst_port", "msg">>
sockunix_fields == <<"event", "time", "socket", "msg">>
pcap_fields == <<"time", "len", "caplen", "interface", "datalink", "packet">>
syslog_fields == <<"facility", "severity", "time", "host", "repeat", "pid", "prog", "msg">>
prism2_fields ==
  <<"msgcode", "msglen", "devname", "hosttime", "mactime", "channel", "rssi",
  "sq", "signal", "noise", "rate", "istx", "framelen", "frame">>
wifi_fields ==
  <<"type", "subtype", "time", "da", "sa", "bssid", "ta", "ra", "dir", "seqnum",
  "iswep", "bodylength", "rssi">>
snmptrap_fields ==
  <<"seq", "bind", "version", "community", "pdu_type", "object_id", "value",
  "enterprise", "agent_addr", "trap_type", "specific_trap_type", "timestamp",
  "request_id", "error_status", "error_index">>
rawsnare_fields ==
  <<"time", "class", "syscall", "ruid", "rgid", "euid", "egid", "pid", "ppid",
  "procname", "retcode", "workdir", "path", "mode", "createmode", "cmdline",
  "src_path", "dst_path", "sockcall", "dst_ip", "dst_port", "src_ip", "src_port",
  "owner_uid", "owner_gid", "target_id", "target_rid", "target_sid", "mod_name",
  "ptrace_req", "ptrace_pid", "ptrace_addr", "ptrace_data", "kill_pid", "kill_sig">>
snare_fields ==
  <<"time", "class", "syscall", "ruid", "rgid", "euid", "egid", "pid", "procname",
  "retcode", "workdir", "path", "mode", "createmode", "cmdline", "src_path",
  "dst_path", "sockcall", "dst_ip", "dst_port", "src_ip", "src_port", "owner_uid",
  "owner_gid", "target_id", "target_rid", "target_sid", "mod_name", "sequence",
  "devmaj", "devmin", "offest">>
auditd_fields ==
  <<"node", "type", "time", "serial", "arch", "syscall", "success", "exit",
  "varzero", "varone", "vartwo", "varthree", "items", "ppid", "pid", "auid", "uid",
  "gid", "euid", "suid", "fsuid", "egid", "sgid", "fsgid", "tty", "ses", "comm",
  "exe", "subj", "key", "item", "name", "inode", "mode", "dev", "ouid", "ogid",
  "rdev", "cwd">>
netfilter_fields ==
  <<"in", "physin", "out", "physout", "mac", "src", "dst", "ip_len", "tos",
  "prec", "ttl", "ipid", "ip_flags", "frag", "ip_opts", "proto", "spt", "dpt",
  "seq", "ack", "window", "res", "tcp_flags", "urgp", "udp_len", "icmp_type",
  "icmp_code", "icmp_id", "icmp_seq", "icmp_param", "icmp_gateway", "icmp_mtu">>

FieldTable ==
  [textfile |-> textfile_fields, udp |-> udp_fields, sockunix |-> sockunix_fields, pcap |-> pcap_fields, syslog |-> syslog_fields,
   prism2 |-> prism2_fields, wifi |-> wifi_fields, snmptrap |-> snmptrap_fields, rawsnare |-> rawsnare_fields,
   snare |-> snare_fields, auditd |-> auditd_fields, netfilter |-> netfilter_fields,
   generic |-> << >>]

\* NETFILTER_FIELDS is 30 in mod_netfilter.c and 32 in netfilter.y: no rule of
\* the grammar stores into the last two.
Fields == [m \in DOMAIN FieldTable |->
             IF m = "netfilter" THEN SubSeq(FieldTable[m], 1, 30) ELSE FieldTable[m]]

\* The type of the last field but one, which DISSECT converts its key to.
KeyType(m) == CASE m \in {"udp", "pcap"} -> "int"
                [] m \in {"textfile", "sockunix", "syslog"} -> "str"
                [] m \in {"prism2", "wifi", "snmptrap", "rawsnare", "snare", "auditd"} -> "int"
                [] OTHER -> "none"
-----------------------------------------------------------------------------
(* What a dissector does: its return value, whether it posts the event,    *)
(* the slots in the order in which they reach the event (the last one      *)
(* becomes its head), the attributes that are allocated, but neither in    *)
(* the event nor freed, and those stored behind the end of attr[].         *)

\* add_fields_to_event() goes through attr[] by index.
Post(m, slots) == [ret |-> 0, posts |-> TRUE, lost |-> {},
                   attrs |-> SelectSeq(Fields[m], LAMBDA f : f \in slots),
                   beyond |-> slots \ ToSet(Fields[m])]
\* free_fields(), return 1
Drop == [ret |-> 1, posts |-> FALSE, attrs |-> << >>, lost |-> {}, beyond |-> {}]
\* return 1 without free_fields()
Forget(slots) == [Drop EXCEPT !.lost = slots]

(* mod_syslog.c.  A line is what remains of the text at every step:        *)
(* nothing after the date or the host, a repetition, a program name with   *)
(* nothing behind it, or one with "[pid]: " or ": " with or without a      *)
(* message.                                                                *)
Months == {"Jan", "Aug", "Avr", "Apr"}
Rests == {"empty", "repeat", "prog", "prog_pid", "prog_pid_msg", "prog_msg"}
SyslogLine(pris, dates, hosts, rests, progs, bodies) ==
  [fmt : {"syslog"}, pri : pris, date : dates, host : hosts, rest : rests,
   prog : progs, body : bodies]

\* The month that struct tm t holds afterwards: "Apr" is no month here, and
\* leaves what the last date has stored.
syslog_getdate(date, tm_mon) == IF date = "Apr" THEN tm_mon ELSE date

SyslogHead(p) ==
  (IF p.pri = "ok" THEN {"facility", "severity"} ELSE {})
  \cup (IF p.date = "none" THEN {} ELSE {"time"})
  \cup (IF p.host THEN {"host"} ELSE {})

\* The mutant returns 1 once the event is posted.
dissect_syslog_fails(p) ==
  IF p.rest = "repeat" THEN [Post("syslog", {"msg", "repeat", "prog"}) EXCEPT !.ret = 1]
  ELSE IF p.rest = "prog_msg" THEN Post("syslog", SyslogHead(p) \cup {"prog", "msg"}) ELSE Drop
dissect_syslog(p) ==
  IF \/ p.pri = "big"
     \/ p.date = "bad"
     \/ p.rest \in {"empty", "prog", "prog_pid"} THEN Drop
  ELSE Post("syslog", SyslogHead(p) \cup
              (CASE p.rest = "repeat" -> {"msg", "repeat", "prog"}
                 [] p.rest = "prog_pid_msg" -> {"prog", "pid", "msg"}
                 [] p.rest = "prog_msg" -> {"prog", "msg"}))

(* mod_rawsnare.c.  A record has a class, numbers that the name tables     *)
(* list or do not list, and the tokens of its class.                       *)
RawsnareRecord == [fmt : {"rawsnare"}, class : 0 .. 13, listed : BOOLEAN, named : BOOLEAN]

\* A number that its table does not reach leaves the slot empty.
linux24_syscall_name(listed) == IF listed THEN {"syscall"} ELSE {}
linux24_socketcall_name(named) == IF named THEN {"sockcall"} ELSE {}
linux24_ptrace_reqname(named) == IF named THEN {"ptrace_req"} ELSE {}
linux24_signal(named) == IF named THEN {"kill_sig"} ELSE {}

Process == {"retcode", "pid", "ppid", "procname"}
read_io == Process \cup {"path", "workdir", "mode", "createmode"}
read_pc == Process
read_exec == Process \cup {"path", "workdir", "cmdline"}
read_net(named) == Process \cup {"src_ip", "src_port", "dst_ip", "dst_port"} \cup linux24_socketcall_name(named)
read_pt(named) == Process \cup {"ptrace_pid", "ptrace_addr", "ptrace_data"} \cup linux24_ptrace_reqname(named)
read_kill(named) == Process \cup {"kill_pid"} \cup linux24_signal(named)
read_ch == Process \cup {"path", "workdir", "owner_uid", "owner_gid"}
read_cp == Process \cup {"src_path", "workdir", "dst_path"}
read_su == Process \cup {"target_id", "target_rid", "target_sid"}
read_ad == Process \cup {"mod_name"}

NUMCLASS == 12
\* Classes 0, 5 and 12 have no reader.
read_class(class, named) ==
  CASE class = 1 -> read_io [] class = 2 -> read_pc [] class = 3 -> read_exec
    [] class = 4 -> read_net(named) [] class = 6 -> read_ch [] class = 7 -> read_cp
    [] class = 8 -> read_su [] class = 9 -> read_ad [] class = 10 -> read_pt(named)
    [] class = 11 -> read_kill(named) [] OTHER -> {}

rawsnare_dissect(p) ==
  IF p.class > NUMCLASS THEN Drop
  ELSE Post("rawsnare", {"class", "time", "ruid", "rgid", "euid", "egid"}
                        \cup linux24_syscall_name(p.listed)
                        \cup read_class(p.class, p.named))

(* mod_auditd.c.  A line is a sequence of words.  A keyword of the table   *)
(* is recognised wherever it starts at the root of the trie, also behind   *)
(* the letters of an unknown word, unless those have led into the trie.    *)
AuditWord == [key : {"audit(", "node=", "syscall=", "pid=", "dev="}, junk : {"none", "skipped", "taken"}]
AuditLine == [fmt : {"auditd"}, words : SeqOf(AuditWord, 2)]

\* The doer of a keyword fills its slot, that of "audit(" two.
action_field(key) == CASE key = "node=" -> "node" [] key = "syscall=" -> "syscall"
                  [] key = "pid=" -> "pid" [] key = "dev=" -> "dev"
action_doer_audit == <<"time", "serial">>
action_doer(field) == << field >>
action_init(key) == IF key = "audit(" THEN action_doer_audit ELSE action_doer(action_field(key))
\* A word whose beginning was taken for that of a keyword is lost.
action_parse_event(word) == IF word.junk = "taken" THEN << >> ELSE action_init(word.key)

dissect_auditd(p) ==
  [Drop EXCEPT !.ret = 0, !.posts = TRUE, !.attrs = FlattenSeq([i \in DOMAIN p.words |-> action_parse_event(p.words[i])])]

(* mod_snmptrap.c                                                          *)
SnmpPacket == [fmt : {"snmptrap"}, vars : BOOLEAN,
               asn : {"ok", "no_sequence", "no_version", "not_v1", "no_community", "no_pdu"}]
snmptrap_dissector(p) ==
  IF p.asn # "ok" THEN Drop
  ELSE Post("snmptrap", {"version", "community", "seq", "enterprise", "trap_type",
                         "specific_trap_type", "agent_addr", "timestamp"}
                        \cup (IF p.vars THEN {"object_id"} ELSE {}))

(* mod_prism2.c: DECODE_PRISM_VALUE fills a slot when its value is present.*)
PrismValues == {"hosttime", "mactime", "channel", "rssi", "sq", "signal", "noise", "rate", "istx"}
PrismFrame == [fmt : {"prism2"}, short : BOOLEAN, present : {{}, {"rssi"}, PrismValues}]
prism2_callback(p) ==
  IF p.short THEN Drop ELSE Post("prism2", {"msgcode", "msglen", "frame"} \cup p.present)

(* mod_netfilter.c and netfilter.y.  A line has the interfaces that are     *)
(* named, a fragment offset or none, and what its protocol shows: nothing   *)
(* of another protocol or of an incomplete header, a TCP header with or     *)
(* without sequence numbers, a UDP header, an ICMP header that ends, goes   *)
(* on with an echo, or goes on with a line of the same form, in brackets.   *)
(* A line that is cut ends behind what it shows.                            *)
Interfaces == {{}, {"in"}, {"in", "physin", "out", "physout"}}
Transports == {"none", "tcp", "tcp_seq", "udp", "icmp", "icmp_echo"}
NetfilterPacket(interfaces) == [interfaces : interfaces, frag : BOOLEAN, proto : Transports]
NetfilterLine ==
  [fmt : {"netfilter"}, parses : {"all", "cut"}, packet : NetfilterPacket(Interfaces), inner : {<< >>}]
  \cup [fmt : {"netfilter"}, parses : {"all", "cut"},
        packet : {p \in NetfilterPacket({{"in"}, {"in", "physin", "out", "physout"}}) : p.proto = "icmp"},
        inner : {<< p >> : p \in {q \in NetfilterPacket({{}, {"in"}}) : ~q.frag}}]

\* What is stored before the rest of the line is parsed, with it, and at its end.
NetfilterHead(p) == (p.interfaces \cap {"physin", "physout"}) \cup {"ip_flags"}
                    \cup (IF p.frag THEN {"frag"} ELSE {})
NetfilterProto(p) ==
  CASE p.proto = "none" -> {}
    [] p.proto = "tcp" -> {"proto", "spt", "dpt", "window", "res", "tcp_flags", "urgp"}
    [] p.proto = "tcp_seq" -> {"proto", "spt", "dpt", "seq", "ack", "window", "res", "tcp_flags", "urgp"}
    [] p.proto = "udp" -> {"spt", "dpt", "udp_len"}
    [] p.proto = "icmp" -> {"icmp_type", "icmp_code"}
    [] p.proto = "icmp_echo" -> {"icmp_type", "icmp_code", "icmp_id", "icmp_seq"}
NetfilterEnd(p) == (p.interfaces \cap {"in", "out"}) \cup {"src", "dst", "ip_len", "tos", "prec", "ttl", "ipid"}
NetfilterSlots(p) == NetfilterHead(p) \cup NetfilterProto(p) \cup NetfilterEnd(p)

\* The bracketed line stores into the same slots, over what is in them; a line
\* that is cut has not come to its own end.
netfilter_dissect(p, text) ==
  LET inner == UNION {NetfilterSlots(p.inner[i]) : i \in DOMAIN p.inner}
      outer == IF p.parses = "all" THEN NetfilterSlots(p.packet) ELSE NetfilterHead(p.packet)
  IN  IF ~text THEN Drop
      ELSE IF p.parses = "cut" THEN Forget(outer \cap inner)
      ELSE [Post("netfilter", outer \cup inner) EXCEPT !.lost = outer \cap inner]

(* mod_snare.c and snare.y.  A record has the form of its system call, with *)
(* or without the attributes that may be missing.                           *)
SnareLine == [fmt : {"snare"}, parses : BOOLEAN, optional : BOOLEAN,
              event : {"open", "perm_io", "mknod", "truncate", "io", "chown", "exec", "proc", "net",
                       "copy", "setid", "setreid", "setresid", "kern"}]
SnareIo(p) ==
  (CASE p.event = "open" -> {"mode"} [] p.event = "truncate" -> {"offest"} [] OTHER -> {}) \cup
  (CASE ~p.optional -> {} [] p.event \in {"open", "perm_io"} -> {"createmode"}
     [] p.event = "mknod" -> {"devmaj", "devmin"} [] OTHER -> {})
SnareEvent(p) ==
  CASE p.event = "chown" -> {"owner_uid", "owner_gid"} [] p.event = "exec" -> {"cmdline"}
    [] p.event = "net" -> {"src_ip", "dst_ip", "src_port", "dst_port", "sockcall"}
    [] p.event = "copy" -> {"dst_path"} [] p.event = "setid" -> {"target_id"}
    [] p.event = "setreid" -> {"target_id", "target_rid"}
    [] p.event = "setresid" -> {"target_id", "target_rid", "target_sid"} [] OTHER -> SnareIo(p)
SnarePath(p) == IF p.event \in {"proc", "net", "setid", "setreid", "setresid"} THEN {} ELSE {"path"}
SnareUser == {"time", "ruid", "rgid", "euid", "egid", "pid", "procname"}
snare_dissect(p) ==
  IF ~p.parses THEN Drop
  ELSE Post("snare", SnareUser \cup SnarePath(p) \cup SnareEvent(p) \cup {"syscall", "retcode", "sequence"})

(* mod_wifi.c: the frames of an interface with Prism headers.              *)
WifiFrame == [fmt : {"wifi"}, prism : BOOLEAN, type : {"mgt", "ctl", "data", "other"},
              subtype : {"rts", "cts", "other"}, dir : {"nods", "dstods"}]
wifi_pcap_callback(p) ==
  IF ~p.prism THEN {} ELSE {"rssi", "time"} \cup
    (CASE p.type = "mgt" -> {"type", "seqnum", "da", "sa", "bssid", "subtype"}
       [] p.type = "ctl" -> {"type", "subtype"}
                            \cup (IF p.subtype \in {"rts", "cts"} THEN {"ra"} ELSE {})
                            \cup (IF p.subtype = "rts" THEN {"ta"} ELSE {})
       [] p.type = "data" -> {"type", "iswep", "seqnum", "subtype", "dir", "bodylength", "da", "sa"}
                             \cup (IF p.dir = "dstods" THEN {"ra", "ta"} ELSE {"bssid"})
       [] OTHER -> {})

(* The input modules.                                                      *)
udp_callback == {"event", "time", "src_addr", "dst_port", "msg"}
sockunix_callback == {"time", "event", "socket", "msg"}
libpcap_callback == {"time", "len", "caplen", "interface", "datalink", "packet"}
textfile_line == {"line_num", "file", "line"}
=============================================================================
