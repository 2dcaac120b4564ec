------------------------------- MODULE Parameters -------------------------------
(***************************************************************************)
(* The parameters of a request: what the creators headers(...),            *)
(* params(...) and data(...) make of a list of pairs, what auth(...) makes *)
(* of a user and a password, and what request_parameters keeps of a list   *)
(* of parameters.                                                          *)
(*                                                                         *)
(* Of a list of pairs only the keys are given; the value of a pair is its  *)
(* place in the list.  A dictionary is a function from keys to values.  A  *)
(* text is a sequence of characters.                                       *)
(***************************************************************************)
EXTENDS Naturals, SequencesExt

\* A string_view: the text it shows, and what follows it in memory up to the next NUL.
View(text, rest) == [text |-> text, rest |-> rest]

CStringCut(v) == v.text      \* (mutant) to_string() for data()

\* The string made of v.data(): it ends at the NUL, not where the view does.
CString(v) == v.text \o v.rest

\* d with k mapped to v as well, whether k was in it or not.
With(d, k, v) == [x \in DOMAIN d \cup {k} |-> IF x = k THEN v ELSE d[x]]

EmptyDictionary == [k \in {} |-> 0]

\* The dictionary that adding the pairs one by one leaves.
AddAll(Add(_, _, _), keys) ==
  FoldLeft(LAMBDA d, i : Add(d, keys[i], i), EmptyDictionary, [i \in 1 .. Len(keys) |-> i])

\* basic_fields::set and std::map::emplace.
SetField(d, k, v) == With(d, k, v)
Emplace(d, k, v) == IF k \in DOMAIN d THEN d ELSE With(d, k, v)

\* headers(...): a field named twice has its last value.
HeadersOf(keys) == AddAll(SetField, keys)

\* params(...), and data(...) of a form: the keys are views, each kept as its C string, and
\* one given twice has its first value.
ParamsOf(keys) == AddAll(Emplace, [i \in DOMAIN keys |-> CString(keys[i])])

-----------------------------------------------------------------------------
(* HTTPBasicAuth *)

\* What its constructor keeps of the two views it is given.
Credentials(user, password) == [user |-> CString(user), password |-> CString(password)]

\* base64: the text can be had back from it, and it has neither spaces nor colons.
Base64(text) == [base64 |-> text]

EncodedPasswordFirst(c) ==   \* (mutant) the two swapped
  [scheme |-> "Basic", encoded |-> Base64(c.password \o <<":">> \o c.user)]

\* encoded_str.
EncodedStr(c) == [scheme |-> "Basic", encoded |-> Base64(c.user \o <<":">> \o c.password)]

-----------------------------------------------------------------------------
(* request_parameters *)

\* A parameter: its kind and what is in it.
Param(kind, arg) == [kind |-> kind, arg |-> arg]

ParamKinds ==
  {"method", "url", "headers", "auth", "timeout", "stream", "verify", "cert", "params", "data"}

\* What data(...) is given: the pairs of a form, or a text.
Data(kind, keys) == [kind |-> kind, keys |-> keys]

\* What url(...) is given, as url_view finds it: the status is that of Parse in Url.
Location(status, secure, host, path) ==
  [status |-> status, secure |-> secure, host |-> host, path |-> path]

\* What a caller can give: a parameter's kind is a type, which has an argument of its own.
IsList(s) == s \in Seq(Range(s))
Typed(p) ==
  /\ p.kind \in ParamKinds
  /\ p.kind = "method" => p.arg \in {"GET", "POST", "unknown"}
  /\ p.kind = "url" => p.arg.status \in {"parsed", "failed", "throws"}
  /\ p.kind = "url" /\ p.arg.status = "parsed" => IsList(p.arg.path) /\ p.arg.path # <<>>
  /\ p.kind \in {"headers", "params"} => IsList(p.arg)
  /\ p.kind = "auth" => /\ p.arg = [user |-> p.arg.user, password |-> p.arg.password]
                        /\ IsList(p.arg.user) /\ IsList(p.arg.password)
  /\ p.kind = "data" => p.arg.kind \in {"form", "text"} /\ IsList(p.arg.keys)
  /\ p.kind = "stream" => p.arg \in BOOLEAN

\* request_parameters: an optional per kind, a sequence of at most one value.
NoParameters == [k \in ParamKinds |-> <<>>]

\* set_param, one parameter after the other: the last of a kind counts.
RequestParameters(params) ==
  FoldLeft(LAMBDA r, p : [r EXCEPT ![p.kind] = <<p.arg>>], NoParameters, params)

\* What the caller does with a session: a call of request with these parameters, of which
\* get and post put the method first; or he sets or erases a field of headers().
Call(params) == [does |-> "request", field |-> "", params |-> params]
Edit(does, field) == [does |-> does, field |-> field, params |-> <<>>]

\* The fields beast knows by an enumerator; it has one more, `unknown', for all others.
KnownFields == {"Host", "Authorization", "Content-Type", "Accept"}

\* What a caller can do.
IsCall(c) ==
  \/ /\ c = Call(c.params) /\ IsList(c.params)
     /\ \A i \in DOMAIN c.params : Typed(c.params[i])
  \/ c = Edit(c.does, c.field) /\ c.does \in {"set", "erase"} /\ c.field \in KnownFields

\* *p, or what stands for it if it is not there.
ValueOr(p, default) == IF p = <<>> THEN default ELSE p[1]

=============================================================================
