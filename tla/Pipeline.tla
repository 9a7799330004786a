------------------------------ MODULE Pipeline ------------------------------
(***************************************************************************)
(* From the configuration file to the injection: modules are loaded and    *)
(* hook their dissectors to other modules (orchids_api.c, mod_mgr.c,       *)
(* orchids_cfg.c, mod_generic.c), then events are posted, dissected and    *)
(* posted again, until inject_event() takes them.  The recursion of        *)
(* post_event() is a stack of calls.                                       *)
(***************************************************************************)
EXTENDS Dissectors, FiniteSetsExt

CONSTANTS
  Configs,     \* configuration files: sequences of directives
  VMods,       \* names of the virtual modules of mod_generic
  Messages(_), \* source -> the messages that come from it
  Sources(_),  \* module -> the files, ports, sockets or links it reads
  SizeOfLong,  \* sizeof (long): 4 or 8
  MaxModules,  \* MAX_MODULES
  MaxMessages, \* bound: messages delivered in a behaviour
  None

ASSUME PipelineAssumption == SizeOfLong \in {4, 8} /\ MaxModules \in Nat /\ MaxMessages \in Nat

VARIABLES
  config,   \* the directives that are still to be obeyed
  phase,    \* "config", "post" (proceed_post_config), "run" or "exit"
  ctx,      \* the modules, their fields and their dissectors
  gen,      \* gen_cfg_g: the hooks and virtual modules of mod_generic
  nf_hook,  \* nf_hook_g
  postpos,  \* mod_id in proceed_post_config()
  calls,    \* the calls of post_event() under way, the innermost first
  tm_mon,   \* t.tm_mon of syslog_getdate()
  posts,    \* module -> mod->posts
  delivered, \* messages delivered
  injected, \* events given to inject_event()
  lost,     \* attributes that nobody can free any more: sets of module and field
  beyond    \* attributes stored behind the end of an array

postVars == << calls, tm_mon, posts, delivered, injected, lost, beyond >>
pipeVars == << config, phase, ctx, gen, nf_hook, postpos, postVars >>

Modules == DOMAIN FieldTable \cup VMods
Key(bytes, len) == [bytes |-> bytes, len |-> len]
\* A string has its own length, an integer the width of its C type.
StrKey(s) == Key(s, 0)
\* The mutant takes another width.
IntValue_wide(n) == Key(n, 2 * SizeOfLong)
IntValue(n) == Key(n, SizeOfLong)
-----------------------------------------------------------------------------
(* Registration: operators on ctx, which exit() leaves with exit TRUE.     *)

\* One operation after the other: what Op makes of the value of c.
Then(c, Op(_)) == CHOOSE r \in {Op(d) : d \in {c}} : TRUE

Loaded(c, m) == m \in ToSet(c.loaded)
Exit(c) == [c EXCEPT !.exit = TRUE]

register_fields(c, m, names) ==
  [c EXCEPT !.first[m] = Len(c.fields), !.num[m] = Len(names),
            !.fields = @ \o [i \in DOMAIN names |-> << m, names[i] >>]]

register_dissector(c, m, parent) ==
  IF ~Loaded(c, parent) \/ c.sub[parent] # {} \/ c.dissect[parent] # None THEN Exit(c)
  ELSE [c EXCEPT !.dissect[parent] = [mod |-> m, hook |-> 0]]

register_conditional_dissector(c, m, parent, key, hook) ==
  IF \/ ~Loaded(c, parent)
     \/ c.dissect[parent] # None
     \/ \E d \in c.sub[parent] : d.key = key THEN Exit(c)
  ELSE [c EXCEPT !.sub[parent] = @ \cup {[key |-> key, mod |-> m, hook |-> hook]}]

dependencies(m) == CASE m = "rawsnare" -> {"udp"} [] m \in {"snare", "netfilter"} -> {"udp", "textfile"}
                     [] OTHER -> {}

\* What the modules do when they are loaded.  The module itself is not yet counted.
snmptrap_preconfig(c) ==
  LET d == register_conditional_dissector(c, "snmptrap", "udp", Key("162", 4), 0)
  IN  IF d.exit THEN d ELSE register_fields(d, "snmptrap", Fields["snmptrap"])
prism2_preconfig(c) ==
  register_conditional_dissector(register_fields(c, "prism2", Fields["prism2"]), "prism2", "pcap",
                                 Key("PRISM_HEADER", 4), 0)
pre_config(c, m) ==
  CASE m = "snmptrap" -> snmptrap_preconfig(c)
    [] m = "prism2" -> prism2_preconfig(c)
    [] m \in {"netfilter", "generic"} \cup VMods -> c
    [] OTHER -> register_fields(c, m, Fields[m])

add_module(c, m) ==
  IF Len(c.loaded) >= MaxModules THEN Exit(c)
  ELSE IF Loaded(c, m) THEN c
  ELSE IF \E d \in dependencies(m) : ~Loaded(c, d) THEN Exit(c)
  ELSE LET d == pre_config(c, m) IN IF d.exit THEN d ELSE [d EXCEPT !.loaded = Append(@, m)]
-----------------------------------------------------------------------------
(* mod_generic: a hook is a list of virtual modules, linked through the    *)
(* modules themselves.                                                     *)

\* The mutant inserts at the head.
InsertTail_head(g, v) ==
  LET n == Len(g.hooks)
  IN  [g EXCEPT !.hooks[n].first = v, !.hooks[n].last = v, !.next[v] = g.hooks[n].first]

\* STAILQ_INSERT_TAIL(&h->vmod_list, vmod, vmods), for the last hook of g
InsertTail(g, v) ==
  LET n == Len(g.hooks)
      h == g.hooks[n]
      cut == [g.next EXCEPT ![v] = None]
  IN  IF h.last = None
      THEN [g EXCEPT !.hooks[n].first = v, !.hooks[n].last = v, !.next = cut]
      ELSE [g EXCEPT !.hooks[n].last = v, !.next = [cut EXCEPT ![h.last] = v]]

\* A field has the number of the first one with its name.
add_field(g, v, field) ==
  IF field.name \in ToSet(g.fields[v]) THEN g ELSE [g EXCEPT !.fields[v] = Append(@, field.name)]
add_fmatch(g, v, match) ==
  [FoldLeft(LAMBDA h, f : Then(h, LAMBDA k : add_field(k, v, f)), g, match.fields) EXCEPT !.matches[v] = Append(@, match)]

\* A known virtual module is used again, unless a real one has its name.
add_vmod(g, section, taken) ==
  LET v == section.name
      known == v \in ToSet(g.vmods)
      h == IF known THEN g ELSE [g EXCEPT !.vmods = Append(@, v)]
  IN  IF g.exit \/ (~known /\ taken) THEN [g EXCEPT !.exit = TRUE]
      ELSE FoldLeft(LAMBDA l, match : Then(l, LAMBDA k : add_fmatch(k, v, match)), InsertTail(h, v), section.matches)

add_hook(g, d, c) ==
  FoldLeft(LAMBDA h, section : Then(h, LAMBDA k : add_vmod(k, section, Loaded(c, section.name))),
           [g EXCEPT !.hooks = Append(@, [module |-> d.source, condition |-> d.key,
                                          first |-> None, last |-> None,
                                          given |-> [i \in DOMAIN d.vmods |-> d.vmods[i].name]])],
           d.vmods)

\* STAILQ_FOREACH over the modules of a hook, as far as the list is no circle
VmodList(g, h) ==
  LET from[n \in 0 .. Cardinality(VMods)] ==
        IF n = 0 THEN IF h.first = None THEN << >> ELSE << h.first >>
        ELSE LET l == from[n - 1]
             IN  IF l = << >> \/ g.next[Last(l)] = None THEN l ELSE Append(l, g.next[Last(l)])
  IN  from[Cardinality(VMods)]

generic_postconfig(c, g) ==
  LET Add(d, v) == IF d.exit THEN d ELSE register_fields(add_module(d, v), v, g.fields[v])
      Register(d, i) ==
        IF d.exit THEN d
        ELSE register_conditional_dissector(d, "generic", g.hooks[i].module,
                                            StrKey(g.hooks[i].condition), i)
      added == FoldLeft(LAMBDA d, v : Then(d, LAMBDA e : Add(e, v)), c, g.vmods)
  IN  FoldLeft(LAMBDA d, i : Then(d, LAMBDA e : Register(e, i)), added, [i \in DOMAIN g.hooks |-> i])

netfilter_postconfig(c) ==
  LET d == register_fields(c, "netfilter", Fields["netfilter"])
  IN  IF nf_hook = None THEN d ELSE register_dissector(d, "netfilter", nf_hook)
-----------------------------------------------------------------------------
(* The directives of the configuration file, in their order.               *)

Obey(c, g, nf) ==
  /\ config' = Tail(config)
  /\ ctx' = c /\ gen' = g /\ nf_hook' = nf
  /\ phase' = IF c.exit \/ g.exit THEN "exit" ELSE "config"
  /\ UNCHANGED << postpos, postVars >>

Directive(name) == phase = "config" /\ config # << >> /\ Head(config).dir = name

LoadModule ==
  /\ Directive("LoadModule")
  /\ Obey(add_module(ctx, Head(config).mod), gen, nf_hook)

\* DISSECT: only some modules export a dissector.  A module without registered
\* fields has no last field but one, and the key gets whatever type is found.
add_cond_dissector ==
  /\ Directive("DISSECT")
  /\ LET d == Head(config)
         keys == IF ctx.num[d.source] < 2 THEN {Key(d.key, 4), StrKey(d.key), None}
                 ELSE IF KeyType(d.source) = "int" THEN {Key(d.key, 4)} ELSE {StrKey(d.key)}
     IN  IF \/ ~Loaded(ctx, d.source) \/ ~Loaded(ctx, d.mod)
            \/ d.mod \notin {"syslog", "snare", "rawsnare", "auditd", "netfilter"}
         THEN Obey(ctx, gen, nf_hook)
         ELSE \E key \in keys :
                Obey(IF key = None THEN ctx
                     ELSE register_conditional_dissector(ctx, d.mod, d.source, key, 0), gen, nf_hook)

\* <module netfilter> AddHook, <module generic> <hook ...>
module_config ==
  \/ /\ Directive("AddHook")
     /\ Obey(ctx, gen, IF Loaded(ctx, "netfilter") THEN Head(config).source ELSE nf_hook)
  \/ /\ Directive("hook")
     /\ Obey(ctx, IF Loaded(ctx, "generic") THEN add_hook(gen, Head(config), ctx) ELSE gen, nf_hook)

ConfigDone ==
  /\ phase = "config" /\ config = << >>
  /\ phase' = "post"
  /\ UNCHANGED << config, ctx, gen, nf_hook, postpos, postVars >>

\* The next module of the list, which grows under the loop.
proceed_post_config ==
  /\ phase = "post"
  /\ IF postpos = Len(ctx.loaded)
     THEN phase' = "run" /\ UNCHANGED << ctx, postpos >>
     ELSE LET m == ctx.loaded[postpos + 1]
              c == CASE m = "generic" -> generic_postconfig(ctx, gen)
                     [] m = "netfilter" -> netfilter_postconfig(ctx)
                     [] OTHER -> ctx
          IN  ctx' = c /\ postpos' = postpos + 1 /\ phase' = IF c.exit THEN "exit" ELSE "post"
  /\ UNCHANGED << config, gen, nf_hook, postVars >>
-----------------------------------------------------------------------------
(* Events.  An attribute belongs to a field of a module; val is what        *)
(* issdl_get_data() and issdl_get_data_len() give for it.                   *)

Value(m, field, q, from) ==
  CASE << m, field >> \in {<< "udp", "dst_port" >>, << "pcap", "datalink" >>} -> IntValue(from)
    [] << m, field >> \in {<< "textfile", "file" >>, << "sockunix", "socket" >>} -> StrKey(from)
    [] << m, field >> = << "syslog", "time" >> -> Key(syslog_getdate(q.date, tm_mon), 0)
    [] << m, field >> = << "syslog", "prog" >> -> StrKey(IF q.rest = "repeat" THEN "syslog" ELSE q.prog)
    [] OTHER -> Key("other", 0)

Attr(m, f, q, from) ==
  [id |-> ctx.first[m] + SelectInSeq(IF m \in VMods THEN gen.fields[m] ELSE Fields[m],
                                     LAMBDA g : g = f) - 1,
   mod |-> m, field |-> f, val |-> Value(m, f, q, from)]

\* The mutant adds the fields from the last one to the first.
add_fields_to_event_reversed(m, slots, event, q, from) ==
  [i \in DOMAIN slots |-> Attr(m, slots[i], q, from)] \o event

\* Every slot in turn becomes the head of the event.
add_fields_to_event(m, slots, event, q, from) ==
  [i \in DOMAIN slots |-> Attr(m, slots[Len(slots) + 1 - i], q, from)] \o event

NoText == [fmt |-> "none"]
Call(m, event, payload) == [sender |-> m, event |-> event, payload |-> payload, ret |-> None]

\* The messages that a dissector may take this text for.
Lines(m) == CASE m = "syslog" -> SyslogLine({"none", "big"}, {"none"}, {FALSE}, Rests, {"kernel"}, {NoText})
              [] m = "snare" -> SnareLine [] m = "rawsnare" -> RawsnareRecord
              [] m = "auditd" -> AuditLine [] m = "netfilter" -> NetfilterLine
              [] m = "snmptrap" -> SnmpPacket [] m = "prism2" -> PrismFrame
Reads(m, p) == IF m = "generic" \/ p.fmt = m THEN {p} ELSE Lines(m)

\* Of the modules of the hook, in the order of the list, the first match.
generic_dissect(hook, p) ==
  LET vmods == VmodList(gen, gen.hooks[hook])
      tries == FlattenSeq([i \in DOMAIN vmods |->
                 [j \in DOMAIN gen.matches[vmods[i]] |-> << vmods[i], gen.matches[vmods[i]][j] >>]])
      hit == SelectInSeq(tries, LAMBDA t : p.fmt = "text" /\ t[2].id \in p.hits)
  IN  IF hit = 0 THEN Drop @@ [vmod |-> None]
      ELSE LET v == tries[hit][1]
               fields == tries[hit][2].fields
               bad == SelectInSeq(fields, LAMBDA f : f.type = "ip4" /\ p.badip)
               names == {fields[i].name : i \in DOMAIN fields}
           IN  (IF bad # 0 THEN Forget({fields[i].name : i \in 1 .. bad})
                ELSE [Drop EXCEPT !.ret = 0, !.posts = TRUE,
                                  !.attrs = SelectSeq(gen.fields[v], LAMBDA f : f \in names)])
               @@ [vmod |-> v]

IsText(event) ==
  \/ << Head(event).mod, Head(event).field >> \in {<< "textfile", "line" >>, << "syslog", "msg" >>}
  \/ Head(event).mod \in VMods

Outcome(h, q, event) ==
  LET r == CASE h.mod = "syslog" -> dissect_syslog(q)
             [] h.mod = "snare" -> snare_dissect(q)
             [] h.mod = "rawsnare" -> rawsnare_dissect(q)
             [] h.mod = "auditd" -> dissect_auditd(q)
             [] h.mod = "netfilter" -> netfilter_dissect(q, IsText(event))
             [] h.mod = "snmptrap" -> snmptrap_dissector(q)
             [] h.mod = "prism2" -> prism2_callback(q)
  IN  IF h.mod = "generic" THEN IF IsText(event) THEN generic_dissect(h.hook, q) ELSE Drop @@ [vmod |-> None]
      ELSE r @@ [vmod |-> h.mod]

Top == Head(calls)
\* hash_get(): the same bytes and the same length
SubDissector(c) ==
  {d \in ctx.sub[c.sender] : d.key = c.event[2].val}
Hook(c) ==
  IF ctx.dissect[c.sender] # None THEN {ctx.dissect[c.sender]} ELSE SubDissector(c)

\* post_event() starts: it counts, then the event is dissected or injected.
Push(m, event, payload) ==
  /\ calls' = << Call(m, event, payload) >> \o calls
  /\ posts' = [posts EXCEPT ![m] = @ + 1]

CallDissector ==
  /\ calls # << >> /\ Top.ret = None
  /\ \E h \in Hook(Top) : \E q \in Reads(h.mod, Top.payload) : \E r \in {Outcome(h, q, Top.event)} :
       LET m == r.vmod
           body == IF m = "syslog" THEN q.body ELSE NoText
           returning == << [Top EXCEPT !.ret = r.ret] >> \o Tail(calls)
       IN  /\ IF r.posts
              THEN /\ calls' = << Call(m, add_fields_to_event(m, r.attrs, Top.event, q, None), body) >>
                               \o returning
                   /\ posts' = [posts EXCEPT ![m] = @ + 1]
              ELSE calls' = returning /\ UNCHANGED posts
           /\ tm_mon' = IF h.mod = "syslog" /\ q.pri # "big" /\ q.date \in Months
                        THEN syslog_getdate(q.date, tm_mon) ELSE tm_mon
           /\ lost' = lost \cup {<< m, f >> : f \in r.lost}
           /\ beyond' = beyond \cup {<< m, f >> : f \in r.beyond}
  /\ UNCHANGED << delivered, injected >>

\* An event is injected when no dissector is hooked, or when that one failed.
inject_event ==
  /\ calls # << >>
  /\ \/ Top.ret = None /\ Hook(Top) = {}
     \/ Top.ret = 1
  /\ calls' = Tail(calls) /\ injected' = injected + 1
  /\ UNCHANGED << tm_mon, posts, delivered, lost, beyond >>

Return ==
  /\ calls # << >> /\ Top.ret = 0
  /\ calls' = Tail(calls)
  /\ UNCHANGED << tm_mon, posts, delivered, injected, lost, beyond >>

\* The fields that the callback of input module m fills for message p.
Filled(m, p) == CASE m = "udp" -> udp_callback [] m = "sockunix" -> sockunix_callback
                  [] m = "pcap" -> libpcap_callback [] m = "textfile" -> textfile_line
                  [] m = "wifi" -> wifi_pcap_callback(p)

\* A message arrives at an input module, which posts it unless it is empty.
Deliver(m) ==
  /\ phase = "run" /\ calls = << >> /\ delivered < MaxMessages /\ Loaded(ctx, m)
  /\ \E from \in Sources(m) : \E p \in Messages(from) :
       \E attrs \in {SelectSeq(Fields[m], LAMBDA f : f \in Filled(m, p))} :
         /\ attrs # << >>
         /\ delivered' = delivered + 1
         /\ Push(m, add_fields_to_event(m, attrs, << >>, p, from), p)
  /\ UNCHANGED << tm_mon, injected, lost, beyond >>

udp_input == Deliver("udp")
sockunix_input == Deliver("sockunix")
pcap_input == Deliver("pcap")
textfile_input == Deliver("textfile")
wifi_callback == Deliver("wifi")
-----------------------------------------------------------------------------
PipeStart ==
  /\ phase = "config" /\ nf_hook = None /\ postpos = 0
  /\ ctx = [loaded |-> << >>, fields |-> << >>, exit |-> FALSE,
            first |-> [m \in Modules |-> 0], num |-> [m \in Modules |-> 0],
            dissect |-> [m \in Modules |-> None], sub |-> [m \in Modules |-> {}]]
  /\ gen = [hooks |-> << >>, vmods |-> << >>, exit |-> FALSE, next |-> [v \in VMods |-> None],
            fields |-> [v \in VMods |-> << >>], matches |-> [v \in VMods |-> << >>]]
  /\ calls = << >> /\ tm_mon = "Jan" /\ posts = [m \in Modules |-> 0]
  /\ delivered = 0 /\ injected = 0 /\ lost = {} /\ beyond = {}

PipeInit == config \in Configs /\ PipeStart

PostStep == (CallDissector \/ inject_event \/ Return)
            /\ UNCHANGED << config, phase, ctx, gen, nf_hook, postpos >>

PipeNext ==
  \/ LoadModule \/ add_cond_dissector \/ module_config \/ ConfigDone \/ proceed_post_config
  \/ PostStep
  \/ /\ udp_input \/ sockunix_input \/ pcap_input \/ textfile_input \/ wifi_callback
     /\ UNCHANGED << config, phase, ctx, gen, nf_hook, postpos >>
-----------------------------------------------------------------------------
PipeTypeOK ==
  /\ phase \in {"config", "post", "run", "exit"} /\ (phase = "exit") = (ctx.exit \/ gen.exit)
  /\ tm_mon \in Months /\ nf_hook \in Modules \cup {None}
  /\ \A i \in DOMAIN calls : calls[i].sender \in Modules /\ calls[i].ret \in {None, 0, 1}
  /\ posts \in [Modules -> Nat] /\ delivered \in 0 .. MaxMessages /\ injected \in Nat

(* A message reaches inject_event() exactly once, as the innermost event   *)
(* that was made of it: a dissector that returns 0 has posted, one that    *)
(* does not return 0 has not (orchids_api.c 537-571).                      *)
PostedOnce ==
  injected = delivered - (IF \E i \in DOMAIN calls : calls[i].ret # 0 THEN 1 ELSE 0)

(* A dissector that gives up has freed its attributes and one that posts   *)
(* has put them into the event, but for two: a bad address in mod_generic  *)
(* loses those found until then (mod_generic.c 129), and the bracketed     *)
(* line of a netfilter message those of the line it is in, or its own,     *)
(* that both have (netfilter.y 492-497).                                   *)
TwiceInNetfilter ==
  {"in", "physin", "out", "physout", "src", "dst", "ip_len", "tos", "prec", "ttl", "ipid",
   "ip_flags", "frag", "icmp_type", "icmp_code"}
LostAsWritten ==
  \A l \in lost : l[1] \in VMods \/ (l[1] = "netfilter" /\ l[2] \in TwiceInNetfilter)

(* Injected or freed: the fate of every message that comes in.             *)
InjectedOnce == PostedOnce /\ LostAsWritten

(* The attributes of an event have the ids of their own fields in the      *)
(* global table, whatever was registered before and after them.            *)
IdsNameFields ==
  \A i \in DOMAIN calls : \A j \in DOMAIN calls[i].event :
    LET a == calls[i].event[j]
    IN  a.id + 1 \in DOMAIN ctx.fields /\ ctx.fields[a.id + 1] = << a.mod, a.field >>

(* post_event() chooses by the second attribute of the event; DISSECT      *)
(* converts its key to the type of the sender's last field but one.  They  *)
(* are the same field, and there is one, wherever a dissector is hooked.   *)
KeyIsDeclaredField ==
  \A i \in DOMAIN calls :
    LET c == calls[i]
    IN  ctx.sub[c.sender] # {} =>
          /\ Len(c.event) >= 2
          /\ c.event[2].mod = c.sender
          /\ c.event[2].field = Fields[c.sender][Len(Fields[c.sender]) - 1]

(* "key: The key value to trig the dissector" (orchids_api.h): an event    *)
(* with the registered value goes to the registered dissector.  The        *)
(* conditions of mod_generic are strings, also where the field is none.    *)
KeyTriggers ==
  calls # << >> /\ Top.ret = None =>
    \A d \in ctx.sub[Top.sender] :
      d.key.bytes = Top.event[2].val.bytes /\ (d.mod # "generic" \/ KeyType(Top.sender) = "str")
        => d \in Hook(Top)

(* A module has one dissector for all its events or one per key, never     *)
(* both, and every one of them is loaded when events flow.                 *)
HooksExclusive ==
  phase = "run" => \A m \in Modules :
    /\ ctx.dissect[m] # None => ctx.sub[m] = {} /\ Loaded(ctx, ctx.dissect[m].mod)
    /\ \A d, e \in ctx.sub[m] : Loaded(ctx, d.mod) /\ (d.key = e.key => d = e)

(* The virtual modules of a hook are those of its section of the           *)
(* configuration file, in that order, unless a later section uses one of   *)
(* them again next to others: the module has one link for all its lists    *)
(* (mod_generic.c 381).                                                    *)
HookHasItsVmods ==
  phase # "exit" => \A i \in DOMAIN gen.hooks :
    (\A j \in i + 1 .. Len(gen.hooks), v \in ToSet(gen.hooks[i].given) :
        v \in ToSet(gen.hooks[j].given) => Len(gen.hooks[i].given) = 1 /\ Len(gen.hooks[j].given) = 1)
      => VmodList(gen, gen.hooks[i]) = gen.hooks[i].given

(* The event of a nested call ends with the whole event of the caller, so  *)
(* that the text its attributes point into is part of the same event.      *)
EventKeepsText ==
  \A i \in 2 .. Len(calls) : IsSuffix(calls[i].event, calls[i - 1].event)

(* A date whose month is one of those in the code is given that month, and *)
(* not the one of an earlier line (mod_syslog.c 304-352).                  *)
MonthOfTheLine ==
  \A i \in 2 .. Len(calls) :
    LET p == calls[i].payload
    IN  calls[i - 1].sender = "syslog" /\ p.fmt = "syslog" =>
          \A a \in ToSet(calls[i - 1].event) :
            << a.mod, a.field >> = << "syslog", "time" >> /\ p.date # "Apr" => a.val.bytes = p.date

(* A dissector stores into its own array, NETFILTER_FIELDS of one file     *)
(* being less than those of the other (mod_netfilter.c 36, netfilter.y 54).*)
StoredInside == beyond = {}

\* What a dissector and the engine are given is what the line says: fields of
\* the senders, the key where post_event() looks for it, the text that they
\* point into, and the date of this line.
EventFaithful ==
  PipeTypeOK /\ StoredInside /\ IdsNameFields /\ KeyIsDeclaredField /\ EventKeepsText /\ MonthOfTheLine

\* The dissectors and the lists of virtual modules are those of the
\* configuration file.
HooksAsConfigured == HooksExclusive /\ HookHasItsVmods
=============================================================================
