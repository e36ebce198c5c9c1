----------------------------- MODULE MCJudging -----------------------------
(***************************************************************************)
(* A small world of sources, answers and rules, chosen so that every way a *)
(* read is refused and every way a rule is declined happens.               *)
(***************************************************************************)
EXTENDS JudgingProperties

MCNotANumber == -99
MCProviders  == <<"a", "b">>

Public == [scheme |-> "https", host |-> "public"]
NoSelector == [lead |-> "", steps |-> <<>>]
Path(steps) == [lead |-> "$", steps |-> steps]
Source(kind, url, selector) == [kind |-> kind, url |-> url, selector |-> selector]
Web(selector) == Source("http", Public, selector)

Latest == Web(Path(<<Member("candles"), Index(-1)>>))
First  == Web(Path(<<Member("candles"), Index(0)>>))
Page   == Web(NoSelector)

OneSource == {
    <<Latest>>, <<First>>, <<Page>>,
    <<Web(Path(<<Member("close")>>))>>,
    <<Web(Path(<<Member("candles"), Unsupported>>))>>,
    <<Web([lead |-> "f", steps |-> <<>>])>>,
    <<Source("chain", Public, NoSelector)>>,
    <<Source("http", [scheme |-> "ftp", host |-> "public"], NoSelector)>>,
    <<Source("https", [scheme |-> "http", host |-> "private"], NoSelector)>>
}

Reply200(bytes, body) ==
    [headers |-> "ok", arrival |-> "ok", success |-> TRUE, bytes |-> bytes, body |-> body]

Candles(items) == Object([candles |-> Array(items)])

MCResponses == {
    Reply200(2, Candles(<<Scalar(1, 4), Scalar(1, 6)>>)),
    Reply200(2, Candles(<<Scalar(1, 6), Scalar(1, 5)>>)),
    Reply200(3, Candles(<<Scalar(1, 6), Scalar(1, 4)>>)),
    Reply200(2, Candles(<<>>)),
    Reply200(2, Candles(<<Scalar(3, 4)>>)),
    Reply200(2, Object([close |-> Null])),
    Reply200(1, Scalar(1, 6)),
    Reply200(1, Text(1, 5)),
    Reply200(2, Text(1, -99)),
    Reply200(2, Text(3, 6)),
    Reply200(2, Text(0, -99)),
    Reply200(0, Text(0, -99)),
    [Reply200(1, Text(1, 6)) EXCEPT !.success = FALSE],
    [Reply200(1, Text(1, 6)) EXCEPT !.headers = "timeout"],
    [Reply200(1, Text(1, 6)) EXCEPT !.arrival = "network"]
}

(* Every body that is JSON, and what it holds.                             *)
MCValues ==
    LET bodies  == {r.body : r \in MCResponses}
        json    == {b \in bodies : b.type # "text"}
        within  == UNION {Inside(v) : v \in json}
    IN json \cup within \cup UNION {Inside(v) : v \in within}

Over(number)  == Compares(">", number, TRUE)
Under(number) == Compares("<", number, TRUE)

PlainRules == {
    << <<YesIf, Over(5)>> >>,
    << <<YesIf, Under(5)>>, <<NoIf>> >>,
    << <<YesIf, Over(5), NoIf>> >>,
    << <<NoIf, Over(5)>> >>,
    << <<Over(5), YesIf>> >>,
    << <<YesIf, Negation("not"), Over(5)>> >>,
    << <<YesIf, Over(4), Under(6)>> >>,
    << <<YesIf, Over(4)>>, <<NoIf, Under(4)>> >>,
    << <<YesIf, Compares(">", 5, FALSE)>> >>,
    << <<YesIf>> >>
}

MCReply == [success |-> TRUE, content |-> TRUE, chatId |-> TRUE, verified |-> "true",
            json |-> "object", outcome |-> "YES", probability |-> 0]

MCReplies == {
    MCReply,
    [MCReply EXCEPT !.outcome = "NO", !.verified = "null"],
    [MCReply EXCEPT !.verified = "false"],
    [MCReply EXCEPT !.outcome = "UNRESOLVABLE"],
    [MCReply EXCEPT !.outcome = "maybe"],
    [MCReply EXCEPT !.json = "text"],
    [MCReply EXCEPT !.chatId = FALSE]
}

(* Every rule with one source, and one rule with none or with two.         *)
MCSpecs ==
    [rules : PlainRules, sources : OneSource] \cup
    [rules : {<< <<YesIf, Over(5)>> >>}, sources : {<<>>, <<Latest, Page>>}]
=============================================================================
