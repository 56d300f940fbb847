SPECIFICATION Spec
CONSTANTS
    Obj <- FiveObjects
    Key <- FiveKeys
    Dict = {"a", "b"}
    Nil = Nil
    Link = Link
    Rooms <- OneOrBoth
    Most = 4
INVARIANTS TreeSound SizeHonest AnswersRight
PROPERTY KeepsPromise
