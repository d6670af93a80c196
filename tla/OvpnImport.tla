----------------------------- MODULE OvpnImport -----------------------------
(***************************************************************************)
(* The import of a .ovpn file: the lexer and the directives                *)
(* (core/ovpn_parser/parser.rs), the builder filled from them              *)
(* (builders/openvpn_builder.rs, util/cert_store.rs), the validation       *)
(* (util/validation.rs), the settings handed to NetworkManager             *)
(* (builders/vpn.rs) and what get_vpn_info and list_vpn_connections read   *)
(* back from them (core/vpn.rs).                                           *)
(*                                                                         *)
(* A line is a sequence of words and whether it ends in a backslash.  A    *)
(* word is a text, a tag, or the start of a comment.  Whoever writes the   *)
(* file writes one thing at a time and chooses its layout; meant keeps     *)
(* what was written, so that the reading can be compared with it.          *)
(***************************************************************************)
EXTENDS Integers, SequencesExt, Option

CONSTANTS
    Texts,        \* the texts of a file, what is between blanks
    Directives,   \* the directives that may be written: sequences of texts
    Blocks,       \* the names of blocks that may be written
    BlockLines,   \* the lines that may be in a block
    Usernames,    \* what the caller passes as the username: "" or a name, or None
    Number,       \* the texts that are numbers, and their values
    Octets,       \* the texts that are IPv4 addresses, and their octets
    Bracketed,    \* the texts that are addresses in brackets, and the addresses
    WithColon,    \* hosts that contain a colon, such as an IPv6 address, out of brackets
    TcpNames,     \* the texts that start with "tcp"
    MaxItems,     \* bound on the items written
    MaxContent,   \* bound on the lines of a block
    MaxSetters    \* bound on the setters called, the items written counting as well

-----------------------------------------------------------------------------
(* The text, what is read from it, and where its certificates end up.      *)

Word(t) == [kind |-> "word", text |-> t]
Opening(n) == [kind |-> "open", text |-> n]
Closing(n) == [kind |-> "close", text |-> n]
Comment == <<[kind |-> "comment", text |-> "#"], Word("remark")>>
Line(words, cont) == [words |-> words, cont |-> cont]
TextOf(w) == IF w.kind = "word" THEN w.text ELSE "<tag>"
Is(kind, words) == Len(words) = 1 /\ words[1].kind = kind
Closes(line) == Is("close", line.words) /\ ~line.cont

DefaultPort == 1194
CertNames == {"ca", "cert", "key", "ta", "tls-crypt"}
Items == [block : {FALSE}, key : Texts, rest : Seq(Texts)]
             \cup [block : {TRUE}, key : Texts, rest : Seq(BlockLines)]
Endpoints == [host : Texts \cup {"", "h3"}, port : Nat]
Sources == [inline : BOOLEAN, of : Texts \cup Seq(BlockLines)]
TlsAuths == [source : Sources, direction : Texts \cup {None}]
CertPaths == [stored : BOOLEAN, of : Texts \cup CertNames \cup {"", "own.pem", "own.key"}]

\* A line of a block is one that does not close it; None is none of the values
\* it stands for.
ASSUME OvpnImportAssumption ==
    /\ "" \notin Texts
    /\ \A d \in Directives : d \in Seq(Texts) /\ d # <<>>
    /\ Blocks \subseteq Texts
    /\ \A line \in BlockLines : ~Closes(line)
    /\ \A t \in DOMAIN Number : Number[t] \in Nat
    /\ \A a \in DOMAIN Octets : Octets[a] \in [1..4 -> 0..255]
    /\ None \notin Texts \cup TcpNames \cup {"yes", "exceeded"}
    /\ None \notin Nat \cup Items \cup Endpoints \cup Sources \cup TlsAuths \cup CertPaths
    /\ {MaxItems, MaxContent, MaxSetters} \subseteq Nat

VARIABLES
    lex,      \* the lexer: see Start
    meant,    \* history: the items written
    open,     \* history: the block that is being written, or None
    hidden,   \* history: the last line was a comment that goes on in the next
    broken,   \* history: the file is not well-formed
    phase,    \* "writing", "lexed", "parsed", "populated", "built", "saved" or "refused"
    file,     \* OvpnFile
    builder,  \* OpenVpnBuilder, then OpenVpnConfig
    setters,  \* number of setters called
    own,      \* history: what the setters gave, by field
    store,    \* inline material stored so far: content by type
    data      \* vpn.data of the profile

written == <<meant, open, hidden, broken>>
called == <<setters, own>>
importVars == <<lex, written, phase, file, builder, called, store, data>>

-----------------------------------------------------------------------------
(* The lexer.                                                              *)

Directive(texts) == [block |-> FALSE, key |-> Head(texts), rest |-> Tail(texts)]
Block(name, lines) == [block |-> TRUE, key |-> name, rest |-> lines]

Start == [items |-> <<>>, current |-> <<>>, continuing |-> FALSE,
          block |-> None, buffer |-> <<>>, error |-> FALSE]
LexError(l) == [l EXCEPT !.error = TRUE]

Uncommented(words) ==
    LET marks == {i \in 1..Len(words) : words[i].kind = "comment"}
    IN IF marks = {} THEN words ELSE SubSeq(words, 1, Min(marks) - 1)

(* Fault: the content of a block is cleaned like a line outside of one.    *)
InBlockCleaned(l, line) ==
    IF Closes(line)
    THEN IF line.words[1].text = l.block
         THEN [l EXCEPT !.items = Append(@, Block(l.block, l.buffer)), !.block = None]
         ELSE LexError(l)
    ELSE [l EXCEPT !.buffer = Append(@, Line(Uncommented(line.words), line.cont))]

(* In a block every line is content but the closing tag of the block.      *)
InBlock(l, line) ==
    IF Closes(line)
    THEN IF line.words[1].text = l.block
         THEN [l EXCEPT !.items = Append(@, Block(l.block, l.buffer)), !.block = None,
                         !.buffer = <<>>]
         ELSE LexError(l)
    ELSE [l EXCEPT !.buffer = Append(@, line)]

LogicalLine(l, words) ==
    IF words = <<>> THEN l
    ELSE IF Is("open", words)
    THEN [l EXCEPT !.block = words[1].text, !.buffer = <<>>]
    ELSE IF Is("close", words) THEN LexError(l)
    ELSE [l EXCEPT !.items = Append(@, Directive([i \in 1..Len(words) |-> TextOf(words[i])]))]

Feed(l, line) ==
    IF l.error THEN l
    ELSE IF l.block # None THEN InBlock(l, line)
    ELSE LET words == IF l.continuing THEN l.current \o line.words ELSE line.words
         IN IF line.cont
            THEN [l EXCEPT !.current = words, !.continuing = TRUE]
            ELSE LogicalLine([l EXCEPT !.current = <<>>, !.continuing = FALSE],
                             Uncommented(words))

AtEnd(l) == IF l.continuing \/ l.block # None THEN LexError(l) ELSE l

-----------------------------------------------------------------------------
(* The writing of the file.                                                *)

ImportInit ==
    /\ lex = Start /\ meant = <<>> /\ open = None
    /\ hidden = FALSE /\ broken = FALSE
    /\ phase = "writing" /\ file = None /\ builder = None
    /\ setters = 0 /\ own = <<>>
    /\ store = <<>> /\ data = None

(* What is written goes through the lexer, a line at a time.               *)
Write(l) ==
    /\ phase = "writing" /\ ~broken /\ Len(meant) < MaxItems
    /\ lex' = l
    /\ UNCHANGED <<phase, file, builder, called, store, data>>

(* A blank line, or a comment, which a backslash at its end continues, at  *)
(* most once.                                                              *)
WriteNothing ==
    /\ open = None
    /\ \E words \in {<<>>, Comment}, cont \in BOOLEAN :
        /\ cont => words # <<>> /\ ~hidden
        /\ Write(Feed(lex, Line(words, cont)))
        /\ hidden' = cont
    /\ UNCHANGED <<meant, open, broken>>

(* One line, one line with a remark, or two lines joined by a backslash.   *)
WriteDirective ==
    /\ open = None
    /\ \E d \in Directives :
        LET words == [i \in 1..Len(d) |-> Word(d[i])]
        IN /\ \/ Write(Feed(lex, Line(words, FALSE)))
              \/ Write(Feed(lex, Line(words \o Comment, FALSE)))
              \/ \E i \in 1..Len(d) :
                    Write(Feed(Feed(lex, Line(SubSeq(words, 1, i), TRUE)),
                               Line(SubSeq(words, i + 1, Len(words)), FALSE)))
           /\ meant' = IF hidden THEN meant ELSE Append(meant, Directive(d))
    /\ hidden' = FALSE
    /\ UNCHANGED <<open, broken>>

OpenBlock ==
    /\ open = None
    /\ \E n \in Blocks :
        /\ Write(Feed(lex, Line(<<Opening(n)>>, FALSE)))
        /\ open' = IF hidden THEN None ELSE Block(n, <<>>)
    /\ hidden' = FALSE
    /\ UNCHANGED <<meant, broken>>

WriteContent ==
    /\ open # None /\ Len(open.rest) < MaxContent
    /\ \E line \in BlockLines :
        /\ Write(Feed(lex, line))
        /\ open' = [open EXCEPT !.rest = Append(@, line)]
    /\ UNCHANGED <<meant, hidden, broken>>

(* The closing tag of the open block; of another, or without one, it       *)
(* breaks the file.                                                        *)
WriteClosing ==
    /\ \E n \in Blocks :
        /\ Write(Feed(lex, Line(<<Closing(n)>>, FALSE)))
        /\ IF hidden THEN UNCHANGED <<meant, open, broken>>
           ELSE IF open # None /\ open.key = n
           THEN meant' = Append(meant, open) /\ open' = None /\ UNCHANGED broken
           ELSE broken' = TRUE /\ UNCHANGED <<meant, open>>
    /\ hidden' = FALSE

EndOfFile ==
    /\ phase = "writing"
    /\ lex' = AtEnd(lex)
    /\ broken' = (broken \/ hidden \/ open # None)
    /\ phase' = IF lex'.error THEN "refused" ELSE "lexed"
    /\ UNCHANGED <<meant, open, hidden, file, builder, called, store, data>>

-----------------------------------------------------------------------------
(* The directives.                                                         *)

CertKeys == {"ca", "cert", "key", "tls-crypt"}
U16s == 0..65535
IsU16(t) == t \in DOMAIN Number /\ Number[t] \in U16s
IsBit(t) == t \in DOMAIN Number /\ Number[t] \in 0..1

EmptyFile == [remotes |-> <<>>, proto |-> None, dev |-> None, ca |-> None, cert |-> None,
              key |-> None, tlsCrypt |-> None, tlsAuth |-> None, keyDirection |-> None,
              cipher |-> None, dataCiphers |-> <<>>, auth |-> None, compress |-> None,
              allowCompress |-> None, routes |-> <<>>, redirectGateway |-> FALSE,
              authUserPass |-> FALSE, other |-> <<>>, error |-> FALSE]

InFile(t) == [inline |-> FALSE, of |-> t]
Inline(lines) == [inline |-> TRUE, of |-> lines]

Malformed(key, args) ==
    LET n == Len(args)
    IN \/ key = "remote" /\ (n \notin 1..3 \/ (n > 1 /\ ~IsU16(args[2])))
       \/ key \in CertKeys \cup {"dev", "proto"} /\ n # 1
       \/ key = "tls-auth" /\ (n \notin 1..2 \/ (n = 2 /\ ~IsBit(args[2])))
       \/ key = "key-direction" /\ (n = 0 \/ ~IsBit(args[1]))
       \/ key \in {"cipher", "data-ciphers", "auth", "allow-compress"} /\ n = 0
       \/ key = "route" /\ (n = 0 \/ \E i \in 1..Min({n, 3}) : args[i] \notin DOMAIN Octets)

Arg(args, i) == IF i <= Len(args) THEN args[i] ELSE None

SetCert(f, key, source) ==
    CASE key = "ca" -> [f EXCEPT !.ca = source]
      [] key = "cert" -> [f EXCEPT !.cert = source]
      [] key = "key" -> [f EXCEPT !.key = source]
      [] key = "tls-crypt" -> [f EXCEPT !.tlsCrypt = source]

(* A directive given again replaces its value, but remotes, routes and     *)
(* data ciphers, which add up.                                             *)
TakeServer(f, key, args) ==
    CASE key = "remote" ->
            [f EXCEPT !.remotes = Append(@, [host |-> args[1], port |-> Arg(args, 2),
                                             proto |-> Arg(args, 3)])]
      [] key = "dev" -> [f EXCEPT !.dev = args[1]]
      [] key = "proto" -> [f EXCEPT !.proto = args[1]]

TakeCrypto(f, key, args) ==
    CASE key \in CertKeys -> SetCert(f, key, InFile(args[1]))
      [] key = "tls-auth" ->
            [f EXCEPT !.tlsAuth = [source |-> InFile(args[1]), direction |-> Arg(args, 2)]]
      [] key = "key-direction" -> [f EXCEPT !.keyDirection = args[1]]
      [] key = "cipher" -> [f EXCEPT !.cipher = args[1]]
      [] key = "data-ciphers" -> [f EXCEPT !.dataCiphers = Append(@, args[1])]
      [] key = "auth" -> [f EXCEPT !.auth = args[1]]

TakeOption(f, key, args) ==
    CASE key = "compress" -> [f EXCEPT !.compress = IF args = <<>> THEN "stub" ELSE args[1]]
      [] key = "allow-compress" -> [f EXCEPT !.allowCompress = args[1]]
      [] key = "route" ->
            [f EXCEPT !.routes = Append(@, [dest |-> args[1], mask |-> Arg(args, 2),
                                            hop |-> Arg(args, 3)])]
      [] key = "auth-user-pass" -> [f EXCEPT !.authUserPass = TRUE]
      [] key = "redirect-gateway" -> [f EXCEPT !.redirectGateway = TRUE]
      [] OTHER -> [f EXCEPT !.other = Append(@, key)]

TakeDirective(f, key, args) ==
    CASE key \in {"remote", "dev", "proto"} -> TakeServer(f, key, args)
      [] key \in CertKeys \cup {"tls-auth", "key-direction", "cipher", "data-ciphers", "auth"} ->
            TakeCrypto(f, key, args)
      [] OTHER -> TakeOption(f, key, args)

TakeBlock(f, name, lines) ==
    CASE name \in CertKeys -> SetCert(f, name, Inline(lines))
      [] name = "tls-auth" ->
            [f EXCEPT !.tlsAuth = [source |-> Inline(lines), direction |-> None]]
      [] OTHER -> [f EXCEPT !.other = Append(@, name)]

TakeItem(f, item) ==
    IF f.error THEN f
    ELSE IF item.block THEN TakeBlock(f, item.key, item.rest)
    ELSE IF Malformed(item.key, item.rest) THEN [f EXCEPT !.error = TRUE]
    ELSE TakeDirective(f, item.key, item.rest)

(* Fault: key-direction does not reach tls-auth.                           *)
CompletedEarly(f) == f

(* Only when all is read does tls-auth without a direction of its own take *)
(* that of key-direction.                                                  *)
Completed(f) ==
    IF f.tlsAuth # None /\ f.tlsAuth.direction = None
    THEN [f EXCEPT !.tlsAuth.direction = f.keyDirection] ELSE f

(* The items are taken one after the other.                                *)
Taken(items) ==
    LET upTo[n \in 0..Len(items)] ==
            IF n = 0 THEN EmptyFile ELSE TakeItem(upTo[n - 1], items[n])
    IN upTo[Len(items)]

Parse ==
    /\ phase = "lexed"
    /\ file' = Completed(Taken(lex.items))
    /\ phase' = IF file'.error THEN "refused" ELSE "parsed"
    /\ UNCHANGED <<lex, written, builder, called, store, data>>

-----------------------------------------------------------------------------
(* The builder.                                                            *)

IsTcp(proto) == proto \in TcpNames
Tcp(f) == LET first == Head(f.remotes).proto IN IsTcp(IF first # None THEN first ELSE f.proto)

\* The octets with so many leading ones and no other.
Masks == <<0, 128, 192, 224, 240, 248, 252, 254, 255>>
LeadingOnes(b) == Max({n \in 0..8 : b >= Masks[n + 1]})
Prefix(mask) ==
    LET o == Octets[mask]
        full == Max({k \in 0..4 : \A i \in 1..k : o[i] = 255})
    IN 8 * full + (IF full = 4 THEN 0 ELSE LeadingOnes(o[full + 1]))
Route(r) == [r EXCEPT !.mask = IF @ = None THEN 32 ELSE Prefix(@)]

Compression(f) ==
    IF f.compress # None
    THEN CASE f.compress \in {"stub", "stub-v2"} -> "no"
           [] f.compress \in {"lz4", "lz4-v2"} -> f.compress
           [] OTHER -> "yes"
    ELSE IF f.allowCompress = "no" THEN "no" ELSE None

AuthType(f) ==
    CASE f.authUserPass /\ f.cert # None /\ f.key # None -> "password-tls"
      [] f.authUserPass /\ (f.cert = None \/ f.key = None) -> "password"
      [] ~f.authUserPass /\ f.cert # None /\ f.key # None -> "tls"
      [] OTHER -> None

(* What may be inline in the file, by the name it is stored under, in order. *)
StoredAs == <<"ca", "cert", "key", "ta", "tls-crypt">>
SourceOf(f, type) ==
    CASE type = "ca" -> f.ca
      [] type = "cert" -> f.cert
      [] type = "key" -> f.key
      [] type = "ta" -> IF f.tlsAuth = None THEN None ELSE f.tlsAuth.source
      [] type = "tls-crypt" -> f.tlsCrypt
IsInline(source) == source # None /\ source.inline
Stored(f, n) ==
    [type \in {StoredAs[i] : i \in {j \in 1..n : IsInline(SourceOf(f, StoredAs[j]))}} |->
        SourceOf(f, type).of]
PathOf(source, type) ==
    IF source = None THEN None
    ELSE IF source.inline THEN [stored |-> TRUE, of |-> type]
    ELSE [stored |-> FALSE, of |-> source.of]

(* from_parsed; the certificates are stored one after the other, and       *)
(* storing may fail at any of them.                                        *)
Populate ==
    /\ phase = "parsed"
    /\ \/ /\ file.remotes = <<>>
          /\ phase' = "refused" /\ UNCHANGED <<builder, store>>
       \/ /\ file.remotes # <<>>
          /\ \E n \in 1..Len(StoredAs) :
                /\ IsInline(SourceOf(file, StoredAs[n]))
                /\ store' = Stored(file, n - 1)
          /\ phase' = "refused" /\ UNCHANGED builder
       \/ /\ file.remotes # <<>>
          /\ store' = Stored(file, Len(StoredAs))
          /\ builder' =
                [remote |-> Head(file.remotes).host,
                 port |-> LET p == Head(file.remotes).port
                          IN IF p = None THEN None ELSE Number[p],
                 tcp |-> Tcp(file), authType |-> AuthType(file), username |-> None,
                 auth |-> file.auth, cipher |-> file.cipher,
                 ca |-> PathOf(file.ca, "ca"), cert |-> PathOf(file.cert, "cert"),
                 key |-> PathOf(file.key, "key"), compression |-> Compression(file),
                 tlsAuth |-> PathOf(SourceOf(file, "ta"), "ta"),
                 direction |-> IF file.tlsAuth = None THEN None ELSE file.tlsAuth.direction,
                 tlsCrypt |-> PathOf(file.tlsCrypt, "tls-crypt"),
                 redirectGateway |-> file.redirectGateway,
                 routes |-> [i \in 1..Len(file.routes) |-> Route(file.routes[i])],
                 dataCiphers |-> file.dataCiphers, limits |-> None]
          /\ phase' = "populated"
    /\ UNCHANGED <<lex, written, file, called, data>>

(* A builder without a file.                                               *)
NewBuilder ==
    /\ phase = "writing" /\ lex = Start /\ ~hidden
    /\ phase' = "populated"
    /\ builder' =
          [remote |-> None, port |-> None, tcp |-> FALSE, authType |-> None, username |-> None,
           auth |-> None, cipher |-> None, ca |-> None, cert |-> None, key |-> None,
           compression |-> None, tlsAuth |-> None, direction |-> None, tlsCrypt |-> None,
           redirectGateway |-> FALSE, routes |-> <<>>, dataCiphers |-> <<>>, limits |-> None]
    /\ UNCHANGED <<lex, written, file, called, store, data>>

(* The setters, each as the fields it replaces.  limits stands for the DNS *)
(* servers, the MTU, the proxy and the timers, which build does not check  *)
(* and the validation does.                                                *)
PathTo(path) == [stored |-> FALSE, of |-> path]
OwnPorts == {0, 8443}
ServerSetters ==
    {[remote |-> h] : h \in {"", "h3"}} \cup {[port |-> p] : p \in OwnPorts}
    \cup {[tcp |-> b] : b \in BOOLEAN}
    \cup {[authType |-> t] : t \in {"password", "tls", "password-tls", "static-key"}}
    \cup {[auth |-> "sha512"], [cipher |-> "own"]}
CertSetters ==
    UNION {{[ca |-> PathTo(p)], [cert |-> PathTo(p)], [key |-> PathTo(p)]} : p \in {"", "own.pem"}}
OptionSetters ==
    {[compression |-> "lz4"], [tlsCrypt |-> PathTo("own.key")]}
    \cup {[tlsAuth |-> PathTo("own.key"), direction |-> d] : d \in {None, "1"}}
    \cup {[routes |-> <<[dest |-> "10.0.0.0", mask |-> m, hop |-> None]>>] : m \in {8, 33}}
    \cup {[limits |-> l] : l \in {"kept", "exceeded"}}

Overridden(r, call) ==
    [f \in DOMAIN r \cup DOMAIN call |-> IF f \in DOMAIN call THEN call[f] ELSE r[f]]

(* "The caller can override any field before calling build".               *)
Override ==
    /\ phase = "populated"
    /\ Len(meant) + setters < MaxSetters
    /\ setters' = setters + 1
    /\ \E call \in ServerSetters \cup CertSetters \cup OptionSetters :
          builder' = Overridden(builder, call) /\ own' = Overridden(own, call)
    /\ UNCHANGED <<lex, written, phase, file, store, data>>

NeedsUser == {"password", "password-tls"}
NeedsCerts == {"tls", "password-tls"}

(* Fault: build leaves the certificates to the validation.                 *)
CompleteNoCerts(b) ==
    /\ b.remote \notin {None, ""} /\ b.port # 0
    /\ b.authType \notin {None, "static-key"}
    /\ b.authType \in NeedsUser => b.username # None

Complete(b) ==
    /\ b.remote \notin {None, ""} /\ b.port # 0
    /\ b.authType \notin {None, "static-key"}
    /\ b.authType \in NeedsUser => b.username # None
    /\ b.authType \in NeedsCerts => None \notin {b.ca, b.cert, b.key}

(* The caller's username, and build.                                       *)
Build ==
    /\ phase = "populated"
    /\ \E u \in Usernames :
          builder' = [builder EXCEPT !.username = u, !.port = IF @ = None THEN DefaultPort ELSE @]
    /\ phase' = IF Complete(builder') THEN "built" ELSE "refused"
    /\ UNCHANGED <<lex, written, file, called, store, data>>

-----------------------------------------------------------------------------
(* The settings.                                                           *)

(* validate_openvpn_config.                                                *)
Valid(b) ==
    /\ b.remote # ""
    /\ b.authType \in NeedsUser => b.username \notin {None, ""}
    /\ b.authType \in NeedsCerts => None \notin {b.ca, b.cert, b.key}
    /\ \A path \in {b.ca, b.cert, b.key} : path # PathTo("")
    /\ b.limits # "exceeded"
    /\ \A i \in 1..Len(b.routes) : b.routes[i].mask <= 32

(* Only what there is gets an entry; a dash in a key is an underscore here. *)
Entries(d) == [key \in {k \in DOMAIN d : d[k] # None} |-> d[key]]

VpnData(b) ==
    Entries([remote |-> [host |-> b.remote, port |-> b.port],
             connection_type |-> b.authType, proto_tcp |-> IF b.tcp THEN "yes" ELSE None,
             username |-> b.username, auth |-> b.auth, cipher |-> b.cipher,
             ca |-> b.ca, cert |-> b.cert, key |-> b.key, compress |-> b.compression,
             tls_auth |-> b.tlsAuth,
             ta_dir |-> IF b.tlsAuth = None THEN None ELSE b.direction,
             tls_crypt |-> b.tlsCrypt,
             data_ciphers |-> IF b.dataCiphers = <<>> THEN None ELSE b.dataCiphers])

Connect ==
    /\ phase = "built"
    /\ IF Valid(builder)
       THEN phase' = "saved" /\ data' = VpnData(builder)
       ELSE phase' = "refused" /\ UNCHANGED data
    /\ UNCHANGED <<lex, written, file, builder, called, store>>

-----------------------------------------------------------------------------
(* What is read back.                                                      *)

DataStr(key) == IF key \in DOMAIN data THEN data[key] ELSE None

(* The entry is "host:port"; read so when the host is in brackets or there *)
(* is one colon, and else as a host.                                       *)
ParseRemote ==
    LET entry == data["remote"]
    IN IF entry.host \in DOMAIN Bracketed THEN [entry EXCEPT !.host = Bracketed[@]]
       ELSE IF entry.host \in WithColon THEN [host |-> entry, port |-> DefaultPort]
       ELSE entry

Details ==
    [remote |-> ParseRemote.host, port |-> ParseRemote.port,
     protocol |-> IF DataStr("proto_tcp") = "yes" THEN "tcp" ELSE "udp",
     cipher |-> DataStr("cipher"), auth |-> DataStr("auth"),
     compression |-> IF DataStr("compress") # None THEN DataStr("compress")
                     ELSE IF DataStr("comp_lzo") # None THEN "lzo" ELSE None]

DecodeOpenVpn ==
    [connectionType |-> DataStr("connection_type"), userName |-> DataStr("username"),
     ca |-> DataStr("ca"), cert |-> DataStr("cert"), key |-> DataStr("key"),
     ta |-> DataStr("ta")]

-----------------------------------------------------------------------------

ImportNext ==
    \/ WriteNothing \/ WriteDirective \/ OpenBlock \/ WriteContent \/ WriteClosing
    \/ EndOfFile \/ Parse \/ Populate \/ NewBuilder \/ Override \/ Build \/ Connect

ImportSpec == ImportInit /\ [][ImportNext]_importVars

-----------------------------------------------------------------------------
(* The layout of a file says nothing: whatever blank lines, comments,      *)
(* remarks and backslashes it has, the lexer finds the items that were     *)
(* written, with every block as it stands; and it refuses exactly the      *)
(* files whose last line is to go on, or whose tags do not match.          *)
ReadAsWritten ==
    /\ phase # "writing" => (lex.error <=> broken)
    /\ phase \notin {"writing"} /\ ~lex.error => lex.items = meant

(* What the caller wants: what a setter gave, or else what the file says,  *)
(* from what was written: the last of the items with some key, and the     *)
(* first remote.  A block with the name of another directive says nothing. *)
Inlinable == CertKeys \cup {"tls-auth"}
ItemsOf(keys) ==
    {i \in 1..Len(meant) : meant[i].key \in keys /\ (meant[i].block => meant[i].key \in Inlinable)}
LastOf(key) == IF ItemsOf({key}) = {} THEN None ELSE meant[Max(ItemsOf({key}))]
Said(key) == LET d == LastOf(key) IN IF d = None THEN None ELSE d.rest[1]
Wanted(field, said) == IF field \in DOMAIN own THEN own[field] ELSE said
Server ==
    IF ItemsOf({"remote"}) = {} THEN [host |-> None, port |-> DefaultPort, proto |-> None]
    ELSE LET first == meant[Min(ItemsOf({"remote"}))].rest
         IN [host |-> first[1], port |-> IF Len(first) < 2 THEN DefaultPort ELSE Number[first[2]],
             proto |-> IF Len(first) < 3 THEN Said("proto") ELSE first[3]]
Holds(field, path, item) ==
    IF field \in DOMAIN own THEN path = own[field]
    ELSE IF item = None THEN path = None
    ELSE IF item.block THEN path.stored /\ store[path.of] = item.rest
    ELSE path = PathTo(item.rest[1])
Direction ==
    LET ta == LastOf("tls-auth")
    IN IF ta = None THEN None
       ELSE IF ~ta.block /\ Len(ta.rest) = 2 THEN ta.rest[2] ELSE Said("key-direction")

(* A profile that connect_vpn saves is the one the caller described,       *)
(* wherever in the file a directive stands: the first server, with the     *)
(* protocol of its own or of proto; the last certificate of each kind, and *)
(* for an inline one its content in the store; the direction of tls-auth,  *)
(* given with it or anywhere by key-direction; a password or certificates  *)
(* or both as the file asks; all of it but what the caller set on the      *)
(* builder, a tls-auth key together with its direction.  get_vpn_info and  *)
(* list_vpn_connections read back the same protocol, cipher, certificates  *)
(* and kind of authentication, and the server unless its host is an IPv6   *)
(* address without brackets: there the port is lost.  The key of tls-auth  *)
(* is claimed of the profile only: the decoder looks for it elsewhere.     *)
ImportIsFaithful ==
    phase = "saved" =>
        /\ data["remote"] = [host |-> Wanted("remote", Server.host),
                             port |-> Wanted("port", Server.port)]
        /\ LET host == data["remote"].host
           IN host \in DOMAIN Bracketed \/ host \notin WithColon =>
                /\ Details.remote = IF host \in DOMAIN Bracketed THEN Bracketed[host] ELSE host
                /\ Details.port = data["remote"].port
        /\ Details.protocol = "tcp"
              <=> Wanted("tcp", Server.proto \in TcpNames)
        /\ Details.cipher = Wanted("cipher", Said("cipher"))
        /\ Holds("ca", DecodeOpenVpn.ca, LastOf("ca"))
        /\ Holds("cert", DecodeOpenVpn.cert, LastOf("cert"))
        /\ Holds("key", DecodeOpenVpn.key, LastOf("key"))
        /\ Holds("tlsAuth", DataStr("tls_auth"), LastOf("tls-auth"))
        /\ Holds("tlsCrypt", DataStr("tls_crypt"), LastOf("tls-crypt"))
        /\ DataStr("ta_dir") = Wanted("direction", Direction)
        /\ IF "authType" \in DOMAIN own THEN DecodeOpenVpn.connectionType = own.authType
           ELSE /\ DecodeOpenVpn.connectionType \in NeedsUser <=> ItemsOf({"auth-user-pass"}) # {}
                /\ DecodeOpenVpn.connectionType \in NeedsCerts
                      <=> ItemsOf({"cert"}) # {} /\ ItemsOf({"key"}) # {}

(* The values of a field that build lets through and the validation refuses. *)
Unchecked(field) ==
    CASE field \in {"ca", "cert", "key"} -> {PathTo("")}
      [] field = "limits" -> {"exceeded"}
      [] field = "routes" -> {<<[dest |-> "10.0.0.0", mask |-> 33, hop |-> None]>>}
      [] OTHER -> {}

(* The two checks a profile passes agree: what build accepts, connect_vpn  *)
(* refuses only for a value the caller gave, one that build lets through:  *)
(* a blank username or path, a route or a limit out of range. Nothing that *)
(* a file can say is refused only after the guard was taken.               *)
ChecksAgree ==
    phase = "built" =>
        \/ Valid(builder)
        \/ builder.username = ""
        \/ \E field \in DOMAIN own : own[field] \in Unchecked(field)
=============================================================================
