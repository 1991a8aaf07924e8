---------------------------- MODULE MCConfigLoader ----------------------------
(***************************************************************************)
(* Documents one or two steps away from a good one: each field missing, of  *)
(* every wrong type, empty or out of range, in either of two apps.          *)
(***************************************************************************)
EXTENDS ConfigLoader

Str(t) == [type |-> "string", text |-> t]
Int64(n) == [type |-> "integer", int |-> n]
Float(h) == [type |-> "float", halves |-> h]
Bool(b) == [type |-> "boolean", bool |-> b]
List(vs) == [type |-> "array", items |-> vs]
Obj(fs) == [type |-> "object", fields |-> fs]

MCValidEmails == {"ops@x.io"}

GoodSmtp == [url |-> Str("s"), username |-> Str("u"), password |-> Str("p"),
             from |-> Str("f")]

GoodApp ==
  [name |-> Str("a"), url |-> Str("http://h"), path |-> Str("/"),
   active |-> Bool(TRUE), admins |-> List(<<Str("ops@x.io")>>),
   request_type |-> Str("GET"), healthy_response_status_code |-> Int64(200),
   timeout_seconds |-> Int64(1), max_retries |-> Int64(0)]

OtherApp == [GoodApp EXCEPT !.name = Str("b"), !.active = Bool(FALSE),
                            !.max_retries = Int64(3)]

Without(fs, f) == [g \in DOMAIN fs \ {f} |-> fs[g]]

\* Around each limit: 0 and 1, 199 to 600, both ends of int and just past
\* them, and fractions on either side of a limit.
Numbers ==
  { Int64(n) : n \in {-1, 0, 1, 199, 200, 599, 600, Half - 1, Half, -Half,
                      1 - Modulus, Modulus, Modulus + 200} }
  \cup { Float(h) : h \in {-2, -1, 1, 399, 1199, 1200} } \cup {Bool(TRUE), Bool(FALSE)}

Odd(f) ==
  IF f \in AppInts THEN Numbers \cup {Str("1")}
  ELSE IF f = "active" THEN {Str("true"), Int64(1)}
  ELSE IF f = "admins"
       THEN {Str("ops@x.io"), List(<<>>), List(<<Int64(1)>>),
             List(<<Str("ops@x.io"), Str("nobody")>>)}
  ELSE IF f = "request_type" THEN {Str("get"), Str("HEAD"), Str(""), Int64(1)}
  ELSE {Str(""), Int64(1)}

Variants(fs) ==
  { Obj(Without(fs, f)) : f \in DOMAIN fs }
  \cup UNION { { Obj([fs EXCEPT ![f] = v]) : v \in Odd(f) } : f \in DOMAIN fs }
  \cup {List(<<>>)}

Root(smtp, apps) == [smtp |-> smtp, apps |-> apps]

Doc(root) == [opens |-> TRUE, text |-> "json", root |-> root]

GoodRoot == Root(Obj(GoodSmtp), List(<<Obj(GoodApp)>>))

\* A few troubles of different kinds, to meet a second one elsewhere.
Troubles ==
  { Obj(Without(GoodApp, "url")), Obj([GoodApp EXCEPT !.path = Int64(1)]),
    Obj([GoodApp EXCEPT !.name = Str("")]),
    Obj([GoodApp EXCEPT !.timeout_seconds = Int64(0), !.max_retries = Int64(-1)]),
    Obj(OtherApp) }

MCDocuments ==
  { [opens |-> FALSE, text |-> "json", root |-> Obj(GoodRoot)],
    [opens |-> TRUE, text |-> "syntax_error", root |-> Obj(GoodRoot)],
    [opens |-> TRUE, text |-> "number_overflow", root |-> Obj(GoodRoot)],
    Doc(List(<<>>)), Doc(Obj(Without(GoodRoot, "smtp"))),
    Doc(Obj(Without(GoodRoot, "apps"))),
    Doc(Obj(Root(Obj(GoodSmtp), List(<<>>)))), Doc(Obj(Root(Obj(GoodSmtp), Obj(GoodApp)))),
    Doc(Obj(Root(Obj(GoodSmtp),
      List(<<Obj([GoodApp EXCEPT !.timeout_seconds = Float(2 * Modulus)])>>)))) }
  \cup { Doc(Obj(GoodRoot @@ [max_logs_filesize_byte |-> v])) : v \in Odd("max_retries") }
  \cup { Doc(Obj(GoodRoot @@ [logs_path |-> v])) : v \in {Str("l"), Int64(1)} }
  \cup { Doc(Obj(GoodRoot @@ [max_log_filesize |-> Int64(7)])) }
  \cup { Doc(Obj(Root(smtp, List(<<app>>)))) :
           smtp \in Variants(GoodSmtp), app \in Troubles }
  \cup { Doc(Obj(Root(Obj(GoodSmtp), List(<<app, other>>)))) :
           app \in Variants(GoodApp), other \in Troubles }
  \cup { Doc(Obj(Root(Obj(GoodSmtp), List(<<other, app>>)))) :
           app \in Variants(GoodApp), other \in Troubles }
=============================================================================
