SPECIFICATION Spec
CONSTANT Size = 4
INVARIANT PartialsComplete
