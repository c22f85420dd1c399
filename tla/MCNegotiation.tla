----------------------------- MODULE MCNegotiation -----------------------------
EXTENDS Headers

MCQualities == {NotGiven, Malformed, 0, 1}

MCMediaRanges ==
    [range : {"jsonapi", "any"}, parameters : {{}, {"profile"}, {"charset"}}, q : MCQualities]
    \cup [range : {"application", "json"}, parameters : {{}, {"charset"}}, q : {NotGiven, 0}]

MCLanguageRanges ==
    [range : Languages, subtags : 1 .. 2, parameters : {{}}, q : MCQualities]
    \cup [range : {"*", "fr"}, subtags : {1}, parameters : {{}, {"level"}}, q : {NotGiven, 0, 1}]
================================================================================
