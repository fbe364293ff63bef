SPECIFICATION Spec
CONSTANT Lines <- MCLines
PROPERTY RequestsServed
