---------------------------- MODULE ScrapeSteps ----------------------------
(***************************************************************************)
(* The steps a scraping provider is made of.  A provider's function        *)
(* registers callbacks on a collector and visits pages; its definition in  *)
(* the catalogues is the sequence of those steps in the order of the       *)
(* source, and Scraping.tla runs it.                                       *)
(*                                                                         *)
(* A callback is registered for an element of a page (an XPath, a          *)
(* selector, a row of a table, or the JSON of a response) and runs once    *)
(* for every node the page has of it.  What an effect reads of the node is *)
(* a key of it: an attribute, a child, a member of the JSON, or "" for its *)
(* text.  A key may be blank: the attribute or the member is not there.    *)
(***************************************************************************)

Step(op, x, y, do) == [op |-> op, x |-> x, y |-> y, do |-> do, node |-> <<"", 0>>]

(* c.OnXML, c.OnHTML, c.OnResponse: do, for every node of the element.     *)
(* Else is an On whose comment in the source calls it a fallback.          *)
On(element, do)   == Step("on", element, "", do)
Else(element, do) == Step("else", element, "", do)

(* err = json.Unmarshal(r.Body, &data); if err == nil { do }: the body has *)
(* one node, or none when it does not decode.                              *)
Decode(body, do)  == Step("decode", body, "", do)

(* if cond { do }, for a condition on a value that is not in the answer.   *)
When(cond, do)    == Step("when", cond, "", do)
WhenNot(cond, do) == Step("whennot", cond, "", do)

(* Effects on field f of the answer, from key k of the node.               *)
Set(f, k)      == Step("set", f, k, <<>>)       \* info.F = v
SetURL(f, k)   == Step("seturl", f, k, <<>>)    \* info.F = AbsoluteURL(v), the page's own URL for a blank v
Text(f, k)     == Step("text", f, k, <<>>)      \* if v != "" { info.F = v }
Default(f, k)  == Step("default", f, k, <<>>)   \* if info.F == "" { info.F = v }
DefaultURL(f, k) == Step("defaulturl", f, k, <<>>) \* the same with AbsoluteURL(v)
Add(f, k)      == Step("add", f, k, <<>>)       \* info.F = append(info.F, v)
AddURL(f, k)   == Step("addurl", f, k, <<>>)    \* info.F = append(info.F, AbsoluteURL(v))
AddText(f, k)  == Step("addtext", f, k, <<>>)   \* if v != "" { info.F = append(info.F, v) }
AddFirst(f, k) == Step("addfirst", f, k, <<>>)  \* if len(info.F) == 0 { info.F = append(info.F, v) }
Overflow(f, g) == Step("overflow", f, g, <<>>)  \* v to info.F if that is empty, else to info.G
Mean(f, k)     == Step("mean", f, k, <<>>)      \* info.F = sum(v) / len(v)
NeedText(k)    == Step("needtext", "", k, <<>>) \* strings.Fields(v)[0]

(* Effects that read no node.                                              *)
Given(f, source)  == Step("given", f, source, <<>>)   \* info.F = a value known before
Clear(f)          == Step("clear", f, "", <<>>)       \* info.F = ""
Copy(f, g)        == Step("copy", f, g, <<>>)         \* info.F = info.G
CopyDefault(f, g) == Step("copydefault", f, g, <<>>)  \* if info.F == "" { info.F = info.G }
CopyFirst(f, g)   == Step("copyfirst", f, g, <<>>)    \* if info.F == "" && len(info.G) > 0 { info.F = info.G[0] }
Fail              == Step("fail", "", "", <<>>)       \* err = errors.New(...)

DropFirst(f)      == Step("dropfirst", f, "", <<>>)   \* info.F = info.F[1:]
Handled           == Step("handled", "", "", <<>>)    \* the error is dropped for another way to the answer

(* Conditions.                                                             *)
If(f, do)        == Step("if", f, "", do)             \* if info.F != "" { do }
Unless(f, do)    == Step("unless", f, "", do)         \* if info.F == "" { do }
IfText(k, do)    == Step("iftext", "", k, do)         \* if v != "" { do }
Parsed(k, do)    == Step("parsed", "", k, do)         \* if err = parse(v); err == nil { do }
Require(k, do)   == Step("require", "", k, do)        \* if v == "" { err = ... } else { do }
IfOK(do)         == Step("ifok", "", "", do)          \* if err == nil { do }
Incomplete(do)   == Step("incomplete", "", "", do)    \* if !info.IsValid() { do }
IfError(do)      == Step("iferror", "", "", do)       \* if err != nil { do }
IfRefused(do)    == Step("ifrefused", "", "", do)     \* if the visit itself failed { do }
ForEach(f, limit, do) == Step("foreach", f, limit, do) \* for the first values of a list of ids

(* Visits.  The policy says what becomes of the error of the visit:        *)
(*   assign  err = c.Visit(u)                                              *)
(*   keep    if vErr := c.Visit(u); vErr != nil { err = vErr }             *)
(*   stop    if err = c.Visit(u); err != nil { return }                    *)
(*   ignore  c.Visit(u)                                                    *)
(* With VisitAny the collector has ParseHTTPErrorResponse: the callbacks   *)
(* run on the page of an HTTP error, and the visit returns no error.       *)
Visit(page, policy, do)    == Step("visit", page, policy, do)
VisitAny(page, policy, do) == Step("visitany", page, policy, do)

Go(do) == Step("go", "", "", do)       \* go func() { do }(), a visit of an async collector
Wait   == Step("wait", "", "", <<>>)   \* wg.Wait(), c.Wait()
Return == Step("return", "", "", <<>>) \* leaves the function
=============================================================================
