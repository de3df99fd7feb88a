------------------------------ MODULE Restful ------------------------------
(***************************************************************************)
(* comrestful: the three ways of calling an HTTP service.  Request and     *)
(* RequestRaw encode a form with an encoder all calls share, which keeps   *)
(* the Content-Type of the form it encoded last; RequestV2 builds a body   *)
(* of its own from options.  A boundary is the call that drew it; contents *)
(* and URLs are left out.                                                  *)
(***************************************************************************)
EXTENDS Integers, Sequences

CONSTANT HttpCalls

Functions == {"Request", "RequestRaw", "RequestV2"}

(* The Type of the EncoderOption, if there is one (any int may stand       *)
(* there), or the option setters of RequestV2.                             *)
Encoders == {<<>>, <<"json">>, <<"form">>, <<"multipart">>, <<"unknown">>}
Setters == {<<>>, <<"json">>, <<"file", "field">>, <<"json", "file">>, <<"file", "json">>}

(* The answers: 200, another 2xx or an error; and the bytes of the body.   *)
Responses == {<<"ok", 1>>, <<"other2xx", 1>>} \union ({"error"} \X {0, 1, 2000})

NoBoundary == 0

VARIABLES
    function,   \* what each call is: "none" before it is made
    options,    \* its body
    step,       \* "new", "encoded", "attached", "answered", "handed", "done",
                \* "panic"
    contentType,\* of the shared FormMultipartEncoder: whose boundary
    header,     \* whose boundary the call's Content-Type names
    met,        \* another call encoded a form between its encoding and header
    response,   \* of each call
    open,       \* the calls whose response body is open
    shown       \* bytes of the body quoted in the call's error

restfulVars ==
    <<function, options, step, contentType, header, met, response, open, shown>>

RestfulInit ==
    /\ function = [c \in HttpCalls |-> "none"]
    /\ options = [c \in HttpCalls |-> <<>>]
    /\ step = [c \in HttpCalls |-> "new"]
    /\ contentType = NoBoundary
    /\ header = [c \in HttpCalls |-> NoBoundary]
    /\ met = [c \in HttpCalls |-> FALSE]
    /\ response = [c \in HttpCalls |-> <<"ok", 1>>]
    /\ open = {}
    /\ shown = [c \in HttpCalls |-> 0]

To(c, from, to) == step[c] = from /\ step' = [step EXCEPT ![c] = to]

Multipart(c) == options[c] = <<"multipart">>

-----------------------------------------------------------------------------
(* Request and RequestRaw.                                                 *)

(* The encoder of the body's type.  What cannot be encoded is returned     *)
(* before a form's Content-Type is kept.                                   *)
Encode(c, f, o) ==
    /\ o # <<"unknown">>
    /\ function' = [function EXCEPT ![c] = f]
    /\ options' = [options EXCEPT ![c] = o]
    /\ \/ /\ To(c, "new", "encoded")
          /\ IF o = <<"multipart">>
             THEN /\ contentType' = c
                  /\ met' = [d \in HttpCalls |-> met[d] \/ (step[d] = "encoded" /\ d # c)]
             ELSE UNCHANGED <<contentType, met>>
       \/ /\ o \in {<<"json">>, <<"multipart">>} /\ To(c, "new", "done")
          /\ UNCHANGED <<contentType, met>>
    /\ UNCHANGED <<header, response, open, shown>>

(* No name for the method; no encoder of the type (the map gives nil); a   *)
(* form whose Data is no map[string]string; a nil buffer for a file.       *)
Panics(c, f, o, validMethod) ==
    /\ validMethod => o # <<>> /\ o[1] \in {"unknown", "form", "multipart", "file"}
    /\ To(c, "new", "panic")
    /\ function' = [function EXCEPT ![c] = f]
    /\ options' = [options EXCEPT ![c] = o]
    /\ UNCHANGED <<contentType, header, met, response, open, shown>>

(* The Content-Type is read from the encoder, for this form or a later one.*)
Attach(c) ==
    /\ To(c, "encoded", "attached")
    /\ header' = IF Multipart(c) THEN [header EXCEPT ![c] = contentType] ELSE header
    /\ UNCHANGED <<function, options, contentType, met, response, open, shown>>

-----------------------------------------------------------------------------
(* RequestV2.                                                              *)

HasForm(o) == \E i \in DOMAIN o : o[i] \in {"file", "field"}
HasJson(o) == \E i \in DOMAIN o : o[i] = "json"

(* Each setter refuses a content type that is not its own; WithJSON may    *)
(* not be able to marshal its data.                                        *)
BuildV2(c, o) ==
    /\ function' = [function EXCEPT ![c] = "RequestV2"]
    /\ options' = [options EXCEPT ![c] = o]
    /\ \/ /\ HasJson(o) /\ To(c, "new", "done")
          /\ UNCHANGED header
       \/ /\ ~ (HasForm(o) /\ HasJson(o)) /\ To(c, "new", "attached")
          /\ header' = IF HasForm(o) THEN [header EXCEPT ![c] = c] ELSE header
    /\ UNCHANGED <<contentType, met, response, open, shown>>

-----------------------------------------------------------------------------
(* The answer.                                                             *)

(* The request cannot be created, or the call fails.                       *)
CallFails(c) ==
    /\ To(c, "encoded", "done") \/ To(c, "attached", "done")
    /\ UNCHANGED <<function, options, contentType, header, met, response, open, shown>>

Respond(c, a) ==
    /\ To(c, "attached", "answered")
    /\ response' = [response EXCEPT ![c] = a]
    /\ open' = open \union {c}
    /\ UNCHANGED <<function, options, contentType, header, met, shown>>

(* `length = len(body) - 1` cuts the last byte of a short body, and panics *)
(* on an empty one.                                                        *)
Quoted(size) == IF size < 1024 THEN size - 1 ELSE 1024

(* Request: do reads the body and its deferred Close closes it, whether it *)
(* was read or not (a read that fails is an error without a quotation).    *)
ReadAll(c) ==
    /\ function[c] = "Request"
    /\ open' = open \ {c}
    /\ LET quoted == Quoted(response[c][2])
       IN  \/ /\ response[c][1] = "error" /\ quoted >= 0
              /\ To(c, "answered", "done")
              /\ shown' = [shown EXCEPT ![c] = quoted]
           \/ /\ response[c][1] = "error" /\ quoted < 0
              /\ To(c, "answered", "panic")
              /\ UNCHANGED shown
           \/ To(c, "answered", "done") /\ UNCHANGED shown
    /\ UNCHANGED <<function, options, contentType, header, met, response>>

(* Mutant of HandOver: a refused response is not closed.                   *)
HandOverLeaking(c) ==
    /\ function[c] # "Request"
    /\ To(c, "answered", IF function[c] = "RequestRaw" /\ response[c][1] # "ok"
                         THEN "done" ELSE "handed")
    /\ UNCHANGED <<function, options, contentType, header, met, response, open, shown>>

(* RequestRaw closes anything but a 200 and hands a 200 over; RequestV2    *)
(* hands over whatever comes, marked when it is no 200.                    *)
HandOver(c) ==
    /\ function[c] # "Request"
    /\ LET refused == function[c] = "RequestRaw" /\ response[c][1] # "ok"
       IN  /\ To(c, "answered", IF refused THEN "done" ELSE "handed")
           /\ open' = IF refused THEN open \ {c} ELSE open
    /\ UNCHANGED <<function, options, contentType, header, met, response, shown>>

(* Decode or Close of the result, or the caller's Body.Close.              *)
Close(c) ==
    /\ To(c, "handed", "done")
    /\ open' = open \ {c}
    /\ UNCHANGED <<function, options, contentType, header, met, response, shown>>

RestfulNext ==
    \E c \in HttpCalls :
        \/ \E f \in Functions \ {"RequestV2"}, o \in Encoders :
               Encode(c, f, o) \/ \E ok \in BOOLEAN : Panics(c, f, o, ok)
        \/ \E o \in Setters :
               BuildV2(c, o) \/ \E ok \in BOOLEAN : Panics(c, "RequestV2", o, ok)
        \/ Attach(c) \/ CallFails(c)
        \/ \E a \in Responses : Respond(c, a)
        \/ ReadAll(c) \/ HandOver(c) \/ Close(c)

RestfulSpec == RestfulInit /\ [][RestfulNext]_restfulVars

-----------------------------------------------------------------------------
(* Properties.                                                             *)

(* What a caller can count on.  No response stays open once the call is    *)
(* over, whether it returned, failed or panicked (at an empty body under   *)
(* an error status too, manager.go:76-80).  A form of RequestV2 goes out   *)
(* with its own boundary; one of the other calls with its own or that of a *)
(* form encoded after it, never an earlier one (encoder.go:90,             *)
(* manager.go:56-59).                                                      *)
CallerIsServed ==
    \A c \in HttpCalls :
        /\ c \in open => step[c] \in {"answered", "handed"}
        /\ step[c] \in {"attached", "answered"} =>
               /\ HasForm(options[c]) => header[c] = c
               /\ Multipart(c) => header[c] = c \/ met[c]
=============================================================================
