\* Three processes, each in calls of its own.
SPECIFICATION CallSpec
CONSTANT Programs = {p1, p2, p3}
INVARIANT ArgsAreOwn
